---- MODULE Spec2Model ----
(***************************************************************************)
(* Orchestration core of the document-tailoring pipeline.                  *)
(*                                                                         *)
(*   Spec      AgentPool.execute_agents / execute_batches driving          *)
(*             BaseAgent.run (validate -> execute -> format -> save) and   *)
(*             StateManager.save_artifact                                  *)
(*   SpecLoop  the evaluation loop of                                      *)
(*             BaseWritingPolishingOrchestra.execute                       *)
(*                                                                         *)
(* Agents are external collaborators: what a call computes is opaque, so   *)
(* every step of a unit either yields a value or raises.  Scores are       *)
(* written in tenths (8 stands for 0.8).                                   *)
(***************************************************************************)
EXTENDS Integers, Sequences, FiniteSets, TLC

(***************************************************************************)
(* Bounds                                                                  *)
(***************************************************************************)
MaxPool == 2
MaxUnits == 2
MaxCalls == 2
MaxClock == 1
MaxIter == 3
MaxVersions == 3
MaxOps == 3
MaxMatches == 3

\* ResumeJDMatcher.agent_name
AgentNames == {"resume_jd_matcher"}
\* OrchestrationStage.JD_MATCHING
Stages == {"jd_matching"}

\* pool_size = None (unlimited concurrency)
NONE == 0

\* spec 8, scenario A: 5 units, pool limit 2, the unit at index 2 raises;
\* the units arrive in one call or split over two
ScenarioA == [units |-> 5, limit |-> 2, failing |-> 2, calls |-> 2]

Max(a, b) == IF a > b THEN a ELSE b

Calls == 1..MaxCalls
UnitIds == 1..Max(MaxUnits, ScenarioA.units)

VARIABLES
    \* ---- AgentPool ----
    pool_size,      \* AgentPool._pool_size (NONE or >= 1)
    sem_value,      \* AgentPool._semaphore._value (free permits)
    call,           \* per execute_agents call: state, arguments, returned list
    units,          \* per _execute_one task: owner call, index, agent, position, return
    nextUnit,       \* number of tasks created so far
    \* ---- StateManager artifacts ----
    clock,          \* datetime.utcnow() truncated to seconds
    artifacts,      \* files under artifacts/<stage>/<name>.json
    \* ---- writing/polishing loop ----
    loop,           \* local state of BaseWritingPolishingOrchestra.execute
    \* ---- StateManager versions ----
    version_files,  \* artifacts/versions/<document_id>/v<n>.json
    version_log,    \* the store calls that returned, in order
    vm_result,      \* what the last version operation returned or raised
    \* ---- StateManager checkpoints and RunContext ----
    checkpoint_files,   \* checkpoints/<stage>_<YYYYmmdd_HHMMSS>.json
    checkpoint_log,     \* the save_checkpoint calls that returned, in order
    run_context,        \* the RunContext dataclass instance
    ctx_result,         \* what the last checkpoint or RunContext operation returned or raised
    ops,                \* number of operations made on the checkpoint store and the RunContext
    \* ---- BaseOrchestra.run ----
    stage_runs,         \* the activations of BaseOrchestra.run, outermost first
    \* ---- decision logic, merger, fact checking, pruning ----
    calc,               \* the last pure function applied, with its input and output
    merger,             \* local state of MergerEngine.merge
    fact_loop,          \* local state of FactCheckingLoopOrchestra.execute
    \* ---- main ----
    main_run,           \* local state of main() and the exit status of the process
    pruning,            \* local state of PruningOrchestra.execute
    \* ---- concurrent VersionManager stores ----
    store_tasks         \* per coroutine: its position in VersionManager.execute

stageVars == <<stage_runs>>
logicVars == <<calc, merger, fact_loop, main_run, pruning, store_tasks>>
storeVars == <<version_files, version_log, vm_result,
               checkpoint_files, checkpoint_log, run_context, ctx_result, ops,
               stageVars, logicVars>>
ctxVars == <<checkpoint_files, checkpoint_log, run_context, ctx_result, ops,
             stageVars, logicVars>>
poolVars == <<pool_size, sem_value, call, units, nextUnit, clock, artifacts>>
vars == <<pool_size, sem_value, call, units, nextUnit, clock, artifacts, loop, storeVars>>

Min(a, b) == IF a < b THEN a ELSE b

DocumentIds == {"resume", "cover_letter"}
VersionNums == 0..MaxVersions

\* a path at which no file exists
NoFile == <<>>

\* a file that open(path, 'w') created or truncated and no write completed
Corrupt == <<"">>

NoResult == [op |-> "", document_id |-> "", arg |-> 0, exc |-> "", value |-> <<>>]

\* RunContext as the dataclass builds it: INITIALIZATION, nothing recorded
NewRunContext ==
    [current_stage |-> "initialization", ended |-> FALSE,
     context_data |-> {}, error_log |-> <<>>]

NoCtxResult == [op |-> "", exc |-> "", value |-> <<>>]

\* no function applied yet, no merge and no fact-checking loop started
NoCalc == [fn |-> ""]
MergerIdle == [pc |-> "idle"]
FactLoopIdle == [pc |-> "idle"]

PruningIdle == [pc |-> "idle"]

\* the two coroutines that each run one VersionManager store at a time
StoreTasks == {"a", "b"}
StoreTaskIdle == [pc |-> "idle"]

\* main() not called yet; no local name is bound
MainIdle ==
    [pc |-> "idle", exc |-> "", cause |-> "", run_context_bound |-> FALSE,
     logger_bound |-> FALSE, completed |-> FALSE, exit_code |-> NONE]

\* a fresh run directory and no operation made yet
StoresIdle ==
    /\ version_files = [document_id \in DocumentIds |-> [n \in VersionNums |-> NoFile]]
    /\ version_log = <<>>
    /\ vm_result = NoResult
    /\ checkpoint_files = {}
    /\ checkpoint_log = <<>>
    /\ run_context = NewRunContext
    /\ ctx_result = NoCtxResult
    /\ ops = 0
    /\ stage_runs = <<>>
    /\ calc = NoCalc
    /\ merger = MergerIdle
    /\ fact_loop = FactLoopIdle
    /\ main_run = MainIdle
    /\ pruning = PruningIdle
    /\ store_tasks = [task \in StoreTasks |-> StoreTaskIdle]

(***************************************************************************)
(* AgentPool and BaseAgent.run                                             *)
(***************************************************************************)
NoRet == <<>>

Output(u) == [kind |-> "output", exc |-> "", cause |-> "", val |-> u]
Error(u, exc, cause) == [kind |-> "error", exc |-> exc, cause |-> cause, val |-> u]

FreeUnit ==
    [call |-> 0, index |-> 0, agent_name |-> "", stage |-> "",
     pc |-> "free", valid |-> "", ret |-> NoRet, trace |-> <<>>]

IdleCall ==
    [st |-> "idle", exc |-> "", same_length |-> TRUE,
     first |-> 0, n |-> 0, results |-> <<>>]

\* positions of a task that is inside agent.run()
Running == {"validate", "execute", "format", "save"}

InFlight == {u \in UnitIds : units[u].pc \in Running}

UnitsOf(c) == {u \in UnitIds : units[u].call = c}

\* the task of call c created for index i (0-based, as enumerate gives it)
UnitAt(c, i) == call[c].first + i

CanAcquireOpen == TRUE

\* `async with self._semaphore`: admitted when unlimited or a permit is free
CanAcquire == pool_size = NONE \/ sem_value > 0

\* leaving `async with self._semaphore` gives the permit back
Released == IF pool_size = NONE THEN sem_value ELSE sem_value + 1

LengthsMatchAlways(na, ni) == TRUE

\* `if len(agents) != len(inputs): raise ValueError`
LengthsMatch(na, ni) == na = ni

RECURSIVE Insert(_, _)
Insert(p, s) ==
    IF s = <<>> THEN <<p>>
    ELSE IF p[1] < Head(s)[1] THEN <<p>> \o s
    ELSE <<Head(s)>> \o Insert(p, Tail(s))

RECURSIVE InsertDesc(_, _)
InsertDesc(p, s) ==
    IF s = <<>> THEN <<p>>
    ELSE IF p[1] > Head(s)[1] THEN <<p>> \o s
    ELSE <<Head(s)>> \o InsertDesc(p, Tail(s))

RECURSIVE SortedDesc(_)
SortedDesc(pairs) ==
    IF pairs = <<>> THEN <<>>
    ELSE InsertDesc(pairs[Len(pairs)], SortedDesc(SubSeq(pairs, 1, Len(pairs) - 1)))

\* sorted(index_results, key=lambda x: x[0]): stable, ascending by index
RECURSIVE Sorted(_)
Sorted(pairs) ==
    IF pairs = <<>> THEN <<>>
    ELSE Insert(pairs[Len(pairs)], Sorted(SubSeq(pairs, 1, Len(pairs) - 1)))

\* asyncio.gather(*tasks): the returns of the tasks, in task order
IndexResults(c) == [k \in 1..call[c].n |-> units[call[c].first + k - 1].ret]

CallOutcomeFailFast(c) ==
    IF \E u \in UnitsOf(c) : units[u].ret[2].kind = "error"
    THEN [call[c] EXCEPT !.st = "raised", !.exc = "RuntimeError"]
    ELSE [call[c] EXCEPT !.st = "returned",
            !.results = [k \in 1..call[c].n |-> Sorted(IndexResults(c))[k][2]]]

\* gather, sort by index, drop the indices, return the list
CallOutcome(c) ==
    [call[c] EXCEPT !.st = "returned",
        !.results = [k \in 1..call[c].n |-> Sorted(IndexResults(c))[k][2]]]

\* the tasks execute_agents creates: one per element of zip(agents, inputs)
NewUnits(c, n, names, stage) ==
    [u \in UnitIds |->
        IF u > nextUnit /\ u <= nextUnit + n
        THEN [call |-> c, index |-> u - nextUnit - 1, agent_name |-> names[u - nextUnit],
              stage |-> stage, pc |-> "created", valid |-> "", ret |-> NoRet, trace |-> <<>>]
        ELSE units[u]]

\* calls are numbered in the order in which they are made
StartCall(c, na, ni, names, stage, cap) ==
    /\ call[c].st = "idle"
    /\ \A d \in Calls : d < c => call[d].st # "idle"
    /\ IF ~LengthsMatch(na, ni)
       THEN /\ call' = [call EXCEPT ![c] = [IdleCall EXCEPT !.st = "raised",
                            !.exc = "ValueError", !.same_length = (na = ni)]]
            /\ UNCHANGED <<units, nextUnit>>
       ELSE IF na = 0
       THEN /\ call' = [call EXCEPT ![c] = [IdleCall EXCEPT !.st = "returned",
                            !.same_length = (na = ni)]]
            /\ UNCHANGED <<units, nextUnit>>
       ELSE /\ nextUnit + Min(na, ni) <= cap
            /\ call' = [call EXCEPT ![c] = [IdleCall EXCEPT !.st = "running",
                            !.same_length = (na = ni),
                            !.first = nextUnit + 1, !.n = Min(na, ni)]]
            /\ units' = NewUnits(c, Min(na, ni), names, stage)
            /\ nextUnit' = nextUnit + Min(na, ni)
    /\ UNCHANGED <<pool_size, sem_value, clock, artifacts, loop, storeVars>>

\* AgentPool.execute_agents(agents, inputs), up to the await on gather
ExecuteAgents(c) ==
    \E na \in 0..(MaxUnits - nextUnit), ni \in 0..(MaxUnits - nextUnit) :
        \E name \in AgentNames, stage \in Stages :
            StartCall(c, na, ni, [k \in 1..na |-> name], stage, MaxUnits)

\* AgentPool.execute_batches(agent_factory, inputs): one agent per input
ExecuteBatches(c) ==
    \E n \in 0..(MaxUnits - nextUnit), name \in AgentNames, stage \in Stages :
        StartCall(c, n, n, [k \in 1..n |-> name], stage, MaxUnits)

\* _execute_one: pass the admission gate and call agent.run(input_data)
Acquire(u) ==
    /\ units[u].pc = "created"
    /\ CanAcquire
    /\ sem_value' = IF pool_size = NONE THEN sem_value ELSE sem_value - 1
    /\ units' = [units EXCEPT ![u].pc = "validate"]
    /\ UNCHANGED <<pool_size, call, nextUnit, clock, artifacts, loop, storeVars>>

\* agent.run returned: _execute_one releases the permit and returns (index, result)
Returns(u, steps) ==
    /\ units' = [units EXCEPT ![u].pc = "done",
                    ![u].trace = units[u].trace \o steps,
                    ![u].ret = <<units[u].index, Output(u)>>]
    /\ sem_value' = Released

OnFaultSwallow(u, steps, cause) ==
    /\ units' = [units EXCEPT ![u].pc = "done",
                    ![u].trace = units[u].trace \o steps,
                    ![u].ret = <<units[u].index, [Output(u) EXCEPT !.cause = cause]>>]
    /\ sem_value' = Released

OnFaultHolding(u, steps, cause) ==
    /\ units' = [units EXCEPT ![u].pc = "done",
                    ![u].trace = units[u].trace \o steps,
                    ![u].ret = <<units[u].index, Error(u, "RuntimeError", cause)>>]
    /\ UNCHANGED sem_value

\* BaseAgent.run `except Exception as e: raise RuntimeError(...) from e`;
\* the permit is released and _execute_one's `except Exception` returns (index, e)
OnFault(u, steps, cause) ==
    /\ units' = [units EXCEPT ![u].pc = "done",
                    ![u].trace = units[u].trace \o steps,
                    ![u].ret = <<units[u].index, Error(u, "RuntimeError", cause)>>]
    /\ sem_value' = Released

ValidationIgnored(is_valid) == TRUE

\* `if not is_valid: raise ValueError(...)`
ValidationPasses(is_valid) == is_valid

\* BaseAgent.run steps 1-3: validate_input, ValueError when it answers false,
\* otherwise log_agent_start and the start time
Validate(u) ==
    /\ units[u].pc = "validate"
    /\ \E is_valid \in BOOLEAN :
        LET checked == [units EXCEPT ![u].valid = IF is_valid THEN "true" ELSE "false"] IN
        IF ValidationPasses(is_valid)
        THEN /\ units' = [checked EXCEPT ![u].pc = "execute",
                             ![u].trace = <<"validate_input", "log_agent_start">>]
             /\ UNCHANGED sem_value
        ELSE /\ units' = [checked EXCEPT ![u].pc = "done",
                             ![u].trace = <<"validate_input">>,
                             ![u].ret = <<units[u].index, Error(u, "ValueError", "invalid_input")>>]
             /\ sem_value' = Released
    /\ UNCHANGED <<pool_size, call, nextUnit, clock, artifacts, loop, storeVars>>

\* BaseAgent.run step 4: execute, wrapped in RuntimeError when it raises
Execute(u) ==
    /\ units[u].pc = "execute"
    /\ \/ /\ units' = [units EXCEPT ![u].pc = "format",
                          ![u].trace = units[u].trace \o <<"execute">>]
          /\ UNCHANGED sem_value
       \/ OnFault(u, <<"execute">>, "execute")
    /\ UNCHANGED <<pool_size, call, nextUnit, clock, artifacts, loop, storeVars>>

\* BaseAgent.run step 5: format_output, wrapped in RuntimeError when it raises
Format(u) ==
    /\ units[u].pc = "format"
    /\ \/ /\ units' = [units EXCEPT ![u].pc = "save",
                          ![u].trace = units[u].trace \o <<"format_output">>]
          /\ UNCHANGED sem_value
       \/ OnFault(u, <<"format_output">>, "format_output")
    /\ UNCHANGED <<pool_size, call, nextUnit, clock, artifacts, loop, storeVars>>

\* artifacts/<stage>/<agent_name>_<YYYYmmdd_HHMMSS>.json
ArtifactPath(stage, agent_name, timestamp) == <<stage, agent_name, timestamp>>

\* aiofiles.open(path, 'w') and write: the file at that path now holds `owner`
WriteFile(path, owner) ==
    {a \in artifacts : a.path # path} \cup {[path |-> path, owner |-> owner]}

SaveOutputNoWrite(u) ==
    /\ units[u].pc = "save"
    /\ Returns(u, <<"log_agent_complete">>)
    /\ UNCHANGED <<pool_size, call, nextUnit, clock, artifacts, loop, storeVars>>

\* BaseAgent.run steps 7-9: _save_output -> StateManager.save_artifact,
\* log_agent_complete, return formatted_output
SaveOutput(u) ==
    /\ units[u].pc = "save"
    /\ LET path == ArtifactPath(units[u].stage, units[u].agent_name, clock) IN
       \/ /\ artifacts' = WriteFile(path, u)
          /\ Returns(u, <<"save_artifact", "log_agent_complete">>)
       \/ \* open() failed: IOError, nothing written
          /\ UNCHANGED artifacts
          /\ OnFault(u, <<"save_artifact">>, "save_artifact")
       \/ \* write() failed after open(path, 'w') truncated the file
          /\ artifacts' = WriteFile(path, 0)
          /\ OnFault(u, <<"save_artifact">>, "save_artifact")
    /\ UNCHANGED <<pool_size, call, nextUnit, clock, loop, storeVars>>

\* execute_agents after gather: sort, extract, return
Gather(c) ==
    /\ call[c].st = "running"
    /\ \A u \in UnitsOf(c) : units[u].pc = "done"
    /\ call' = [call EXCEPT ![c] = CallOutcome(c)]
    /\ UNCHANGED <<pool_size, sem_value, units, nextUnit, clock, artifacts, loop, storeVars>>

\* a second passes on the wall clock
Tick ==
    /\ clock < MaxClock
    /\ clock' = clock + 1
    /\ UNCHANGED <<pool_size, sem_value, call, units, nextUnit, artifacts, loop, storeVars>>

LoopIdle == [pc |-> "idle"]

\* AgentPool.__init__(pool_size): a semaphore with pool_size permits unless None
Init ==
    /\ pool_size \in {NONE} \cup 1..MaxPool
    /\ sem_value = pool_size
    /\ call = [c \in Calls |-> IdleCall]
    /\ units = [u \in UnitIds |-> FreeUnit]
    /\ nextUnit = 0
    /\ clock = 0
    /\ artifacts = {}
    /\ loop = LoopIdle
    /\ StoresIdle

Next ==
    \/ \E c \in Calls : ExecuteAgents(c)
    \/ \E c \in Calls : ExecuteBatches(c)
    \/ \E u \in UnitIds : Acquire(u)
    \/ \E u \in UnitIds : Validate(u)
    \/ \E u \in UnitIds : Execute(u)
    \/ \E u \in UnitIds : Format(u)
    \/ \E u \in UnitIds : SaveOutput(u)
    \/ \E c \in Calls : Gather(c)
    \/ Tick

Spec == Init /\ [][Next]_vars

\* a step of a task that is ready: a waiter of the semaphore when a permit
\* is free, a stage of an agent run, execute_agents when its tasks are done
PoolStep ==
    \/ \E u \in UnitIds :
          Acquire(u) \/ Validate(u) \/ Execute(u) \/ Format(u) \/ SaveOutput(u)
    \/ \E c \in Calls : Gather(c)

\* every agent.run eventually returns or raises and the event loop keeps
\* running the tasks that are ready; no new call need ever be made
PoolFairness == WF_vars(PoolStep)

\* the calls and the tasks of the pool; the wall clock stands still
NextRuns ==
    \/ \E c \in Calls : ExecuteAgents(c)
    \/ PoolStep

FairSpec == Init /\ [][NextRuns]_vars /\ PoolFairness

\* scenario A: units submitted to a pool of limit 2, five in all
ScenarioCall(c) ==
    /\ c <= ScenarioA.calls
    /\ \E n \in 1..(ScenarioA.units - nextUnit), name \in AgentNames, stage \in Stages :
           StartCall(c, n, n, [k \in 1..n |-> name], stage, ScenarioA.units)

InitA ==
    /\ pool_size \in 1..ScenarioA.limit
    /\ sem_value = pool_size
    /\ call = [c \in Calls |-> IdleCall]
    /\ units = [u \in UnitIds |-> FreeUnit]
    /\ nextUnit = 0
    /\ clock = 0
    /\ artifacts = {}
    /\ loop = LoopIdle
    /\ StoresIdle

NextA ==
    \/ \E c \in Calls : ScenarioCall(c)
    \/ \E u \in UnitIds : Acquire(u)
    \/ \E u \in UnitIds : Validate(u)
    \/ \E u \in UnitIds : Execute(u)
    \/ \E u \in UnitIds : Format(u)
    \/ \E u \in UnitIds : SaveOutput(u)
    \/ \E c \in Calls : Gather(c)

SpecA == InitA /\ [][NextA]_vars

(***************************************************************************)
(* Evaluation loop of BaseWritingPolishingOrchestra.execute                *)
(*                                                                         *)
(* The agents the loop awaits (DocumentEvaluator, IssueFixer,              *)
(* DocumentPolisher, VersionManager) and the checkpoint writer are         *)
(* collaborators: each awaited call returns one of the values the loop     *)
(* distinguishes, or raises.  A draft is named by a number; every fix or   *)
(* polish yields a fresh one.                                              *)
(***************************************************************************)
\* scores an evaluation result may carry, in tenths
EvalScores == {-3, 0, 5, 6, 8, 10, 17}

\* config.quality_threshold, in tenths (validated to lie in [0, 1])
QualityThresholds == {5, 8, 10}

\* score of the stand-in evaluation used for a task instruction
DefaultEvalScore == 5

\* current_score before the first evaluation binds it
Unbound == -100

LoopContinuesInclusive(iteration, max_iterations) == iteration <= max_iterations

\* `while iteration < max_iterations`
LoopContinues(iteration, max_iterations) == iteration < max_iterations

\* decision_logic.has_critical_issues
has_critical_issues(evaluation) == evaluation.has_critical_issues

\* decision_logic.did_score_decrease
did_score_decrease(current_score, previous_score) == current_score < previous_score

is_score_strictly_better(score, threshold) == score > threshold

\* decision_logic.is_score_good_enough
is_score_good_enough(score, threshold) == score >= threshold

\* state at `while` after "Step 7: Initialize loop state"
LoopState(max_iterations, quality_threshold) ==
    [pc |-> "idle", exc |-> "",
     max_iterations |-> max_iterations, quality_threshold |-> quality_threshold,
     iteration |-> 0, version_counter |-> 1,
     previous_score |-> 0, best_version |-> 0, best_score |-> 0,
     current_draft |-> 0, draft_is_text |-> TRUE,
     current_score |-> Unbound, initial_score |-> 0,
     evaluation |-> [score |-> 0, has_critical_issues |-> FALSE],
     evaluation_path |-> <<>>, status |-> "",
     \* history
     draft_counter |-> 0, evals |-> <<>>, eval_drafts |-> <<>>,
     eval_calls |-> 0, fix_calls |-> 0, polish_calls |-> 0, polish_iters |-> {}]

LoopRaise(exc) == loop' = [loop EXCEPT !.pc = "raised", !.exc = exc]

\* steps 1-7: draft, fact check, post-processing, version 0, loop state
InitializeLoop ==
    /\ loop.pc = "idle"
    /\ \/ loop' = [loop EXCEPT !.pc = "head"]
       \/ LoopRaise("SetupError")
    /\ UNCHANGED <<poolVars, storeVars>>

\* `while iteration < max_iterations: iteration += 1`, up to evaluator.run
BeginIteration ==
    /\ loop.pc = "head"
    /\ LoopContinues(loop.iteration, loop.max_iterations)
    /\ loop' = [loop EXCEPT !.pc = "evaluate", !.iteration = loop.iteration + 1]
    /\ UNCHANGED <<poolVars, storeVars>>

BranchThresholdFirst(evaluation, iteration, current_score, previous_score, quality_threshold) ==
    IF is_score_good_enough(current_score, quality_threshold) THEN "complete"
    ELSE IF has_critical_issues(evaluation) THEN "issue_fix"
    ELSE IF iteration > 1 /\ did_score_decrease(current_score, previous_score) THEN "restore"
    ELSE "polish"

\* the decision tree of steps 7c-7f: the branch taken and its path entry
Branch(evaluation, iteration, current_score, previous_score, quality_threshold) ==
    IF has_critical_issues(evaluation) THEN "issue_fix"
    ELSE IF iteration > 1 /\ did_score_decrease(current_score, previous_score) THEN "restore"
    ELSE IF is_score_good_enough(current_score, quality_threshold) THEN "complete"
    ELSE "polish"

\* the await each branch leads to
BranchPc(branch) ==
    CASE branch = "issue_fix" -> "fix"
      [] branch = "restore" -> "restore"
      [] branch = "complete" -> "finish"
      [] branch = "polish" -> "polish"

\* steps 7a-7b and the decisions: the evaluation is parsed, the scores are
\* updated, the checkpoint is written and the branch is chosen
Evaluated(evaluation) ==
    LET current_score == evaluation.score
        better == current_score > loop.best_score
        branch == Branch(evaluation, loop.iteration, current_score,
                         loop.previous_score, loop.quality_threshold)
        scored == [loop EXCEPT
                    !.eval_calls = loop.eval_calls + 1,
                    !.evaluation = evaluation,
                    !.evals = Append(loop.evals, evaluation),
                    !.eval_drafts = Append(loop.eval_drafts, loop.current_draft),
                    !.current_score = current_score,
                    !.initial_score = IF loop.iteration = 1 THEN current_score
                                      ELSE loop.initial_score,
                    !.best_score = IF better THEN current_score ELSE loop.best_score,
                    !.best_version = IF better THEN loop.version_counter - 1
                                     ELSE loop.best_version]
    IN  \/ loop' = [scored EXCEPT !.pc = BranchPc(branch),
                        !.evaluation_path = Append(loop.evaluation_path, branch)]
        \/ \* the checkpoint after the evaluation fails
           loop' = [scored EXCEPT !.pc = "raised", !.exc = "CheckpointError"]

\* evaluator.run(eval_input) and everything up to the next await
Evaluate ==
    /\ loop.pc = "evaluate"
    /\ \/ \* a task instruction: the stand-in evaluation
          Evaluated([score |-> DefaultEvalScore, has_critical_issues |-> FALSE])
       \/ \* a dict: score and has_critical_issues are read from it
          \E score \in EvalScores, critical \in BOOLEAN :
              Evaluated([score |-> score, has_critical_issues |-> critical])
       \/ \* a DocumentEvaluation object: `.get` is not an attribute of it
          loop' = [loop EXCEPT !.pc = "raised", !.exc = "AttributeError",
                               !.eval_calls = loop.eval_calls + 1]
       \/ \* evaluator.run raises
          loop' = [loop EXCEPT !.pc = "raised", !.exc = "RuntimeError",
                               !.eval_calls = loop.eval_calls + 1]
    /\ UNCHANGED <<poolVars, storeVars>>

\* what follows an agent that rewrites the draft: a task instruction keeps
\* the draft, otherwise the new draft is stored as the next version
Rewritten(called) ==
    \/ loop' = [called EXCEPT !.pc = "head", !.previous_score = loop.current_score]
    \/ loop' = [called EXCEPT !.pc = "head", !.previous_score = loop.current_score,
                    !.current_draft = loop.draft_counter + 1,
                    !.draft_counter = loop.draft_counter + 1,
                    !.version_counter = loop.version_counter + 1]
    \/ \* the agent or the version store raises
       loop' = [called EXCEPT !.pc = "raised", !.exc = "RuntimeError"]

\* step 7c: IssueFixer, store, `continue`
Fix ==
    /\ loop.pc = "fix"
    /\ Rewritten([loop EXCEPT !.fix_calls = loop.fix_calls + 1])
    /\ UNCHANGED <<poolVars, storeVars>>

\* step 7f: DocumentPolisher, store, previous_score
Polish ==
    /\ loop.pc = "polish"
    /\ Rewritten([loop EXCEPT !.polish_calls = loop.polish_calls + 1,
                              !.polish_iters = loop.polish_iters \cup {loop.iteration}])
    /\ UNCHANGED <<poolVars, storeVars>>

\* step 7d: version_manager.run(restore_input), `break`.  What run returns
\* is VersionManager.format_output's dict (version_num, content, metadata,
\* timestamp): it carries no "instruction" key, so the loop binds
\* current_draft to that dict, whichever stored content it holds.
Restore ==
    /\ loop.pc = "restore"
    /\ \/ \E restored \in 0..loop.draft_counter :
              loop' = [loop EXCEPT !.pc = "finish", !.current_draft = restored,
                                   !.draft_is_text = FALSE]
       \/ \* validation of restore_input or the load of the version fails
          LoopRaise("RuntimeError")
    /\ UNCHANGED <<poolVars, storeVars>>

\* "End of loop - determine final status"
FinalStatus(iteration, max_iterations, evaluation_path) ==
    IF iteration >= max_iterations THEN "max_iterations_reached"
    ELSE IF \E k \in 1..Len(evaluation_path) : evaluation_path[k] = "restore"
         THEN "score_decreased"
    ELSE "success"

\* after the loop: status, context data, results summary
Finish ==
    /\ \/ loop.pc = "finish"
       \/ loop.pc = "head" /\ ~LoopContinues(loop.iteration, loop.max_iterations)
    /\ LET status == FinalStatus(loop.iteration, loop.max_iterations, loop.evaluation_path) IN
       \/ IF loop.current_score = Unbound
          THEN \* `current_score - initial_score` with current_score never bound
               loop' = [loop EXCEPT !.pc = "raised", !.exc = "UnboundLocalError",
                                    !.status = status]
          ELSE IF ~loop.draft_is_text
          THEN \* `current_draft.split()` on the dict a restore returned
               loop' = [loop EXCEPT !.pc = "raised", !.exc = "AttributeError",
                                    !.status = status]
          ELSE loop' = [loop EXCEPT !.pc = "returned", !.status = status]
       \/ \* storing the final draft in the context fails
          loop' = [loop EXCEPT !.pc = "raised", !.exc = "CheckpointError", !.status = status]
    /\ UNCHANGED <<poolVars, storeVars>>

PoolIdle ==
    /\ pool_size = NONE
    /\ sem_value = NONE
    /\ call = [c \in Calls |-> IdleCall]
    /\ units = [u \in UnitIds |-> FreeUnit]
    /\ nextUnit = 0
    /\ clock = 0
    /\ artifacts = {}

InitLoop ==
    /\ PoolIdle
    /\ StoresIdle
    /\ \E max_iterations \in 0..MaxIter, quality_threshold \in QualityThresholds :
        loop = LoopState(max_iterations, quality_threshold)

NextLoop ==
    \/ InitializeLoop
    \/ BeginIteration
    \/ Evaluate
    \/ Fix
    \/ Polish
    \/ Restore
    \/ Finish

SpecLoop == InitLoop /\ [][NextLoop]_vars

\* every awaited call returns or raises, so the coroutine keeps stepping
FairSpecLoop == SpecLoop /\ WF_vars(NextLoop)

(***************************************************************************)
(* Version store: VersionManager.execute over StateManager.save_version,   *)
(* load_version and get_latest_version.  The store is driven by the one    *)
(* orchestrating coroutine, so an operation runs from call to return       *)
(* without another one in between.                                         *)
(***************************************************************************)
\* document contents (each at least 10 characters long)
Contents == {"first draft", "second draft"}

\* metadata dicts, as sets of key/value pairs; {} is the default of `store`
Metadatas == {{}, {<<"score", 8>>}}

SetMax(S) == CHOOSE x \in S : \A y \in S : y <= x
SetMin(S) == CHOOSE x \in S : \A y \in S : x <= y

\* json.dumps(version_data): the text written to the version file
JsonDumps(version_data) == <<"json", version_data>>

\* json.loads(text) of a text json.dumps produced
JsonLoads(text) == text[2]

Raised(exc) == [exc |-> exc, value |-> <<>>]
Returned(value) == [exc |-> "", value |-> value]

\* StateManager.load_version
load_version(document_id, version_num) ==
    IF version_num \notin VersionNums \/ version_files[document_id][version_num] = NoFile
    THEN Raised("FileNotFoundError")
    ELSE IF version_files[document_id][version_num] = Corrupt
    THEN Raised("IOError")
    ELSE Returned(JsonLoads(version_files[document_id][version_num]))

\* the numbers n for which v<n>.json exists under versions/<document_id>
VersionNumbers(document_id) ==
    {n \in VersionNums : version_files[document_id][n] # NoFile}

LatestOfMin(version_numbers) == SetMin(version_numbers)

\* `latest_num = max(version_numbers)`
LatestOf(version_numbers) == SetMax(version_numbers)

\* StateManager.get_latest_version: (latest_num, latest_data)
get_latest_version(document_id) ==
    IF VersionNumbers(document_id) = {}
    THEN Raised("FileNotFoundError")
    ELSE LET latest_num == LatestOf(VersionNumbers(document_id))
             latest_data == load_version(document_id, latest_num)
         IN  IF latest_data.exc # "" THEN latest_data
             ELSE Returned(<<latest_num, latest_data.value>>)

FirstVersionZero == SetMin(VersionNums)

\* `except FileNotFoundError: next_version = 1`
FirstVersion == 1

NextVersionSame(latest_num) == latest_num

\* `next_version = latest_num + 1`
NextVersion(latest_num) == latest_num + 1

\* the outcome of a version operation, as BaseAgent.run / the caller sees it
VmResult(op, document_id, arg, outcome) ==
    [op |-> op, document_id |-> document_id, arg |-> arg,
     exc |-> outcome.exc, value |-> outcome.value]

\* StateManager.save_version: the three ways the write can end
SaveVersion(document_id, version_num, content, metadata) ==
    LET version_data == [version |-> version_num, content |-> content,
                         metadata |-> metadata, timestamp |-> clock]
        result == [version_num |-> version_num, content |-> content,
                   metadata |-> metadata, timestamp |-> "None"]
    IN  \/ /\ version_files' = [version_files EXCEPT
                    ![document_id][version_num] = JsonDumps(version_data)]
           /\ version_log' = Append(version_log,
                    [document_id |-> document_id, version_num |-> version_num,
                     content |-> content, metadata |-> metadata])
           /\ vm_result' = VmResult("store", document_id, 0, Returned(result))
        \/ \* open() failed: nothing written
           /\ UNCHANGED <<version_files, version_log>>
           /\ vm_result' = VmResult("store", document_id, 0, Raised("IOError"))
        \/ \* the write failed after open(path, 'w') created the file
           /\ version_files' = [version_files EXCEPT ![document_id][version_num] = Corrupt]
           /\ UNCHANGED version_log
           /\ vm_result' = VmResult("store", document_id, 0, Raised("IOError"))

\* VersionManager.execute, action "store"
Store(document_id, content, metadata) ==
    LET latest == get_latest_version(document_id) IN
    /\ Len(version_log) < MaxVersions
    /\ IF latest.exc = "FileNotFoundError"
       THEN SaveVersion(document_id, FirstVersion, content, metadata)
       ELSE IF latest.exc # ""
       THEN /\ vm_result' = VmResult("store", document_id, 0, latest)
            /\ UNCHANGED <<version_files, version_log>>
       ELSE /\ NextVersion(latest.value[1]) <= MaxVersions
            /\ SaveVersion(document_id, NextVersion(latest.value[1]), content, metadata)
    /\ UNCHANGED <<poolVars, loop, ctxVars>>

\* VersionManager.validate_input and execute, action "restore"
RestoreVersion(document_id, version_num) ==
    /\ vm_result' =
          IF version_num < 1
          THEN VmResult("restore", document_id, version_num, Raised("ValueError"))
          ELSE LET version_data == load_version(document_id, version_num) IN
               IF version_data.exc # ""
               THEN VmResult("restore", document_id, version_num, version_data)
               ELSE VmResult("restore", document_id, version_num,
                        Returned([version_num |-> version_data.value.version,
                                  content |-> version_data.value.content,
                                  metadata |-> version_data.value.metadata,
                                  timestamp |-> version_data.value.timestamp]))
    /\ UNCHANGED <<poolVars, loop, version_files, version_log, ctxVars>>

\* StateManager.get_latest_version called directly
Latest(document_id) ==
    /\ vm_result' = VmResult("latest", document_id, 0, get_latest_version(document_id))
    /\ UNCHANGED <<poolVars, loop, version_files, version_log, ctxVars>>

InitVersions ==
    /\ PoolIdle
    /\ loop = LoopIdle
    /\ StoresIdle

NextVersions ==
    \/ \E document_id \in DocumentIds, content \in Contents, metadata \in Metadatas :
            Store(document_id, content, metadata)
    \/ \E document_id \in DocumentIds, version_num \in VersionNums :
            RestoreVersion(document_id, version_num)
    \/ \E document_id \in DocumentIds : Latest(document_id)

SpecVersions == InitVersions /\ [][NextVersions]_vars

(***************************************************************************)
(* Two VersionManager stores at once.  VersionManager.execute awaits       *)
(* get_latest_version (which awaits load_version on the latest file) and   *)
(* then awaits save_version: another coroutine can run between the read of *)
(* the latest number and the write.                                        *)
(***************************************************************************)
\* VersionManager.execute, action "store", up to the await of save_version:
\* the latest number is read and next_version is fixed
BeginStore(task, document_id, content) ==
    LET latest == get_latest_version(document_id) IN
    /\ store_tasks[task].pc \in {"idle", "done"}
    /\ Len(version_log) + Cardinality({t \in StoreTasks : store_tasks[t].pc = "write"})
           < MaxVersions
    /\ IF latest.exc = "FileNotFoundError"
       THEN store_tasks' = [store_tasks EXCEPT ![task] =
                [pc |-> "write", document_id |-> document_id, content |-> content,
                 next_version |-> FirstVersion, exc |-> ""]]
       ELSE IF latest.exc # ""
       THEN store_tasks' = [store_tasks EXCEPT ![task] =
                [pc |-> "done", document_id |-> document_id, content |-> content,
                 next_version |-> 0, exc |-> latest.exc]]
       ELSE /\ NextVersion(latest.value[1]) <= MaxVersions
            /\ store_tasks' = [store_tasks EXCEPT ![task] =
                [pc |-> "write", document_id |-> document_id, content |-> content,
                 next_version |-> NextVersion(latest.value[1]), exc |-> ""]]
    /\ UNCHANGED <<poolVars, loop, version_files, version_log, vm_result,
                   checkpoint_files, checkpoint_log, run_context, ctx_result, ops,
                   stageVars, calc, merger, fact_loop, main_run, pruning>>

\* save_version(document_id, next_version, content, {}) and the result
FinishStore(task) ==
    /\ store_tasks[task].pc = "write"
    /\ SaveVersion(store_tasks[task].document_id, store_tasks[task].next_version,
                   store_tasks[task].content, {})
    /\ store_tasks' = [store_tasks EXCEPT ![task].pc = "done",
                                          ![task].exc = vm_result'.exc]
    /\ UNCHANGED <<poolVars, loop, checkpoint_files, checkpoint_log, run_context,
                   ctx_result, ops, stageVars, calc, merger, fact_loop, main_run,
                   pruning>>

NextStores ==
    \/ \E task \in StoreTasks, document_id \in DocumentIds, content \in Contents :
            BeginStore(task, document_id, content)
    \/ \E task \in StoreTasks : FinishStore(task)

SpecStores == InitVersions /\ [][NextStores]_vars

(***************************************************************************)
(* Checkpoint store (StateManager.save_checkpoint, list_checkpoints,       *)
(* load_latest_checkpoint) and RunContext                                  *)
(***************************************************************************)
\* OrchestrationStage values, in the order the enum declares them
OrchestrationStages ==
    <<"initialization", "input_preparation", "jd_matching", "writing_polishing",
      "fact_checking", "pruning", "completed", "failed">>

\* the same values in the order in which their file names sort
FileNameOrder ==
    <<"completed", "fact_checking", "failed", "initialization",
      "input_preparation", "jd_matching", "pruning", "writing_polishing">>

IndexIn(seq, x) == CHOOSE i \in 1..Len(seq) : seq[i] = x

\* stages and state dicts the operations are called with
StageInputs == {"initialization", "writing_polishing", "fact_checking"}
StateDatas == {"state one", "state two"}
ContextKeys == {"job_urls"}
ContextValues == {"value one", "value two"}

\* f"{stage}_{timestamp}.json" with the timestamp cut to the second
CheckpointName(stage, timestamp) == <<stage, timestamp>>

\* comparison of two checkpoint paths, as sorted() compares them
NameLess(a, b) ==
    \/ IndexIn(FileNameOrder, a[1]) < IndexIn(FileNameOrder, b[1])
    \/ a[1] = b[1] /\ a[2] < b[2]

\* save_checkpoint's open(checkpoint_path, 'w') and write: the files and the
\* log after it, and the path it returns
WriteCheckpoint(files, log, stage, state_data) ==
    LET name == CheckpointName(stage, clock)
        checkpoint_data == [state_data |-> state_data, stage |-> stage,
                            checkpoint_timestamp |-> clock]
    IN  [files |-> {f \in files : f.name # name}
                    \cup {[name |-> name, data |-> checkpoint_data, seq |-> Len(log) + 1]},
         log |-> Append(log, [name |-> name, stage |-> stage, state_data |-> state_data]),
         exc |-> "",
         path |-> name]

\* StateManager.save_checkpoint(stage, state_data)
SaveCheckpoint(stage, state_data) ==
    /\ ops < MaxOps
    /\ ops' = ops + 1
    /\ \/ LET written == WriteCheckpoint(checkpoint_files, checkpoint_log, stage, state_data) IN
          /\ checkpoint_files' = written.files
          /\ checkpoint_log' = written.log
          /\ ctx_result' = [op |-> "save_checkpoint", exc |-> "", value |-> written.path]
       \/ \* open() failed: IOError, nothing written
          /\ UNCHANGED <<checkpoint_files, checkpoint_log>>
          /\ ctx_result' = [op |-> "save_checkpoint", exc |-> "IOError", value |-> <<>>]
    /\ UNCHANGED <<poolVars, loop, version_files, version_log, vm_result, run_context,
                   stageVars, logicVars>>

\* list_checkpoints()[0]: the first of the paths sorted in descending order
FirstListed ==
    CHOOSE f \in checkpoint_files :
        \A g \in checkpoint_files : g = f \/ NameLess(g.name, f.name)

\* StateManager.load_latest_checkpoint
LoadLatestCheckpoint ==
    /\ ctx_result' =
          IF checkpoint_files = {}
          THEN [op |-> "load_latest_checkpoint", exc |-> "", value |-> <<"None">>]
          ELSE [op |-> "load_latest_checkpoint", exc |-> "",
                value |-> <<FirstListed.data.stage, FirstListed.data>>]
    /\ UNCHANGED <<poolVars, loop, version_files, version_log, vm_result,
                   checkpoint_files, checkpoint_log, run_context, ops,
                   stageVars, logicVars>>

\* RunContext.to_dict
to_dict(rc) ==
    [current_stage |-> rc.current_stage, ended |-> rc.ended,
     context_data |-> rc.context_data, error_log |-> rc.error_log]

\* the parameters of StateManager.save_checkpoint and the keywords
\* RunContext.save_checkpoint passes to it
SaveCheckpointParameters == {"stage", "state_data"}
SaveCheckpointKeywords == {"stage", "data"}

\* a call binds when its keywords are the parameters of the callee
CallBinds(keywords, parameters) == keywords = parameters

\* RunContext.save_checkpoint on the context rc: TypeError when the call
\* does not bind, otherwise the state manager's write
ContextCheckpoint(files, log, rc) ==
    IF CallBinds(SaveCheckpointKeywords, SaveCheckpointParameters)
    THEN WriteCheckpoint(files, log, rc.current_stage, to_dict(rc))
    ELSE [files |-> files, log |-> log, exc |-> "TypeError", path |-> <<>>]

Swallowed(saved) == ""

\* `await self.save_checkpoint()` stands in no try block: what it raises
\* leaves the operation
Propagated(saved) == saved.exc

\* the end of an operation that mutated the context to rc and then saved
Checkpointed(op, rc, saved) ==
    /\ ops' = ops + 1
    /\ run_context' = rc
    /\ checkpoint_files' = saved.files
    /\ checkpoint_log' = saved.log
    /\ ctx_result' = [op |-> op, exc |-> Propagated(saved), value |-> <<"None">>]
    /\ UNCHANGED <<poolVars, loop, version_files, version_log, vm_result,
                   stageVars, logicVars>>

\* RunContext.advance_stage(new_stage); the method has no return statement
AdvanceStage(new_stage) ==
    LET rc == [run_context EXCEPT !.current_stage = new_stage] IN
    /\ ops < MaxOps
    /\ Checkpointed("advance_stage", rc,
                    ContextCheckpoint(checkpoint_files, checkpoint_log, rc))

\* RunContext.add_context_data(key, value)
AddContextData(key, value) ==
    LET rc == [run_context EXCEPT
                  !.context_data = {p \in run_context.context_data : p[1] # key}
                                       \cup {<<key, value>>}] IN
    /\ ops < MaxOps
    /\ Checkpointed("add_context_data", rc,
                    ContextCheckpoint(checkpoint_files, checkpoint_log, rc))

\* the record log_error appends
ErrorRecord(rc, error_type, message) ==
    [error_type |-> error_type, message |-> message, stage |-> rc.current_stage]

\* messages and failure reasons the operations are called with
Reasons == {"reason one", "reason two"}

\* RunContext.log_error(error_type, message, details)
LogError(error_type, message) ==
    LET rc == [run_context EXCEPT
                  !.error_log = Append(run_context.error_log,
                                       ErrorRecord(run_context, error_type, message))] IN
    /\ ops < MaxOps
    /\ Checkpointed("log_error", rc,
                    ContextCheckpoint(checkpoint_files, checkpoint_log, rc))

\* RunContext.mark_completed: end_time, advance_stage(COMPLETED)
MarkCompleted ==
    LET rc == [run_context EXCEPT !.ended = TRUE, !.current_stage = "completed"] IN
    /\ ops < MaxOps
    /\ Checkpointed("mark_completed", rc,
                    ContextCheckpoint(checkpoint_files, checkpoint_log, rc))

\* RunContext.mark_failed(reason): end_time, log_error, advance_stage(FAILED);
\* an exception out of log_error ends the method before the stage is written
MarkFailed(reason) ==
    LET logged == [run_context EXCEPT !.ended = TRUE,
                      !.error_log = Append(run_context.error_log,
                                           ErrorRecord(run_context, "execution_failure",
                                                       reason))]
        first == ContextCheckpoint(checkpoint_files, checkpoint_log, logged)
        failed == [logged EXCEPT !.current_stage = "failed"]
    IN  /\ ops < MaxOps
        /\ IF first.exc # ""
           THEN Checkpointed("mark_failed", logged, first)
           ELSE Checkpointed("mark_failed", failed,
                             ContextCheckpoint(first.files, first.log, failed))

InitContext ==
    /\ PoolIdle
    /\ loop = LoopIdle
    /\ StoresIdle

NextContext ==
    \/ \E stage \in StageInputs, state_data \in StateDatas : SaveCheckpoint(stage, state_data)
    \/ LoadLatestCheckpoint
    \/ \E new_stage \in StageInputs : AdvanceStage(new_stage)
    \/ \E key \in ContextKeys, value \in ContextValues : AddContextData(key, value)
    \/ \E message \in Reasons : LogError("validation_error", message)
    \/ MarkCompleted
    \/ \E reason \in Reasons : MarkFailed(reason)
    \/ Tick

SpecContext == InitContext /\ [][NextContext]_vars

(***************************************************************************)
(* main(): wizard, Config, RunContext.create, and the handlers             *)
(*                                                                         *)
(* The steps after RunContext.create (logging, the context data, the pool, *)
(* TailoringOrchestra.run, the summary, mark_completed) come after create  *)
(* has returned.                                                           *)
(***************************************************************************)
\* an exception that leaves main() ends the interpreter with status 1, as
\* sys.exit(1) does
FailureStatus == 1

\* steps 1-2: wizard.run() returns the inputs or the user cancels
MainWizard ==
    /\ main_run.pc = "idle"
    /\ \/ main_run' = [main_run EXCEPT !.pc = "create"]
       \/ main_run' = [main_run EXCEPT !.pc = "interrupted", !.exc = "KeyboardInterrupt",
                                       !.cause = "KeyboardInterrupt"]
    /\ UNCHANGED <<poolVars, loop, version_files, version_log, vm_result,
                   checkpoint_files, checkpoint_log, run_context, ctx_result, ops,
                   stageVars, calc, merger, fact_loop, pruning, store_tasks>>

\* step 3: `run_context = await RunContext.create(config)`: a new context
\* and its first checkpoint; the name is bound when create returns
MainCreate ==
    LET saved == ContextCheckpoint(checkpoint_files, checkpoint_log, NewRunContext) IN
    /\ main_run.pc = "create"
    /\ ops < MaxOps
    /\ ops' = ops + 1
    /\ run_context' = NewRunContext
    /\ checkpoint_files' = saved.files
    /\ checkpoint_log' = saved.log
    /\ ctx_result' = [op |-> "create", exc |-> saved.exc, value |-> <<"RunContext">>]
    /\ main_run' = IF saved.exc # ""
                   THEN [main_run EXCEPT !.pc = "except", !.exc = saved.exc,
                                         !.cause = saved.exc]
                   ELSE [main_run EXCEPT !.pc = "setup", !.run_context_bound = TRUE]
    /\ UNCHANGED <<poolVars, loop, version_files, version_log, vm_result,
                   stageVars, calc, merger, fact_loop, pruning, store_tasks>>

\* `except KeyboardInterrupt`: logger.warning, sys.exit(1)
MainInterrupted ==
    /\ main_run.pc = "interrupted"
    /\ main_run' = [main_run EXCEPT
                       !.pc = "ended", !.exit_code = FailureStatus,
                       !.exc = IF main_run.logger_bound THEN "SystemExit"
                               ELSE "UnboundLocalError"]
    /\ UNCHANGED <<poolVars, loop, version_files, version_log, vm_result,
                   checkpoint_files, checkpoint_log, run_context, ctx_result, ops,
                   stageVars, calc, merger, fact_loop, pruning, store_tasks>>

\* `except Exception as e`: logger.exception, mark_failed inside a try whose
\* handler is `pass`, sys.exit(1)
MainExcept ==
    LET logged == [run_context EXCEPT !.ended = TRUE,
                      !.error_log = Append(run_context.error_log,
                                           ErrorRecord(run_context, "execution_failure",
                                                       main_run.exc))]
        first == ContextCheckpoint(checkpoint_files, checkpoint_log, logged)
        failed == [logged EXCEPT !.current_stage = "failed"]
        second == ContextCheckpoint(first.files, first.log, failed)
    IN
    /\ main_run.pc = "except"
    /\ IF ~main_run.logger_bound
       THEN \* the local name logger is read before it is bound
            /\ main_run' = [main_run EXCEPT !.pc = "ended", !.exc = "UnboundLocalError",
                                            !.exit_code = FailureStatus]
            /\ UNCHANGED <<checkpoint_files, checkpoint_log, run_context>>
       ELSE /\ main_run' = [main_run EXCEPT !.pc = "ended", !.exc = "SystemExit",
                                            !.exit_code = FailureStatus]
            /\ IF ~main_run.run_context_bound
               THEN UNCHANGED <<checkpoint_files, checkpoint_log, run_context>>
               ELSE IF first.exc # ""
               THEN /\ run_context' = logged
                    /\ checkpoint_files' = first.files
                    /\ checkpoint_log' = first.log
               ELSE /\ run_context' = failed
                    /\ checkpoint_files' = second.files
                    /\ checkpoint_log' = second.log
    /\ UNCHANGED <<poolVars, loop, version_files, version_log, vm_result,
                   ctx_result, ops, stageVars, calc, merger, fact_loop, pruning, store_tasks>>

\* main() next to callers that hold a RunContext of their own making
NextMain ==
    \/ MainWizard
    \/ MainCreate
    \/ MainInterrupted
    \/ MainExcept
    \/ \E new_stage \in StageInputs : AdvanceStage(new_stage)
    \/ \E key \in ContextKeys, value \in ContextValues : AddContextData(key, value)
    \/ \E message \in Reasons : LogError("validation_error", message)
    \/ MarkCompleted
    \/ \E reason \in Reasons : MarkFailed(reason)

SpecMain == InitContext /\ [][NextMain]_vars

(***************************************************************************)
(* BaseOrchestra.run: the boundary of a stage                              *)
(*                                                                         *)
(* execute() is the subclass's: it returns its results or raises, and the  *)
(* master orchestra's execute runs the first stage inside it.              *)
(***************************************************************************)
MaxDepth == 2

\* orchestra_name of the orchestras run here
Orchestras == {"tailoring", "input_preparation", "jd_matching", "resume_writing_polishing"}

\* the stage property of each orchestra
StageOf(orchestra) ==
    CASE orchestra = "tailoring" -> "initialization"
      [] orchestra = "input_preparation" -> "input_preparation"
      [] orchestra = "jd_matching" -> "jd_matching"
      [] orchestra = "resume_writing_polishing" -> "writing_polishing"

\* exceptions execute() raises
ExecuteFaults == {"RuntimeError", "ValueError"}

\* the results dict of a stage: its status and whether run added the timing keys
Results(timed) == [status |-> "success", timed |-> timed]

\* f"{self.orchestra_name}_output"
ContextKey(orchestra) ==
    CASE orchestra = "tailoring" -> "tailoring_output"
      [] orchestra = "input_preparation" -> "input_preparation_output"
      [] orchestra = "jd_matching" -> "jd_matching_output"
      [] orchestra = "resume_writing_polishing" -> "resume_writing_polishing_output"

\* an activation of run() at its first statement
NewStageRun(orchestra) ==
    [orchestra |-> orchestra, stage |-> StageOf(orchestra), pc |-> "advance",
     entered_in |-> "", executed |-> "", results |-> <<>>, exc |-> "",
     errors_before |-> Len(run_context.error_log)]

Depth == Len(stage_runs)
Top == stage_runs[Depth]
InProgress == Depth > 0 /\ Top.pc \notin {"returned", "raised"}

SetTop(run) == stage_runs' = [stage_runs EXCEPT ![Depth] = run]

\* orchestra.run() called by a caller that holds a RunContext
StartRun(orchestra) ==
    /\ Depth = 0
    /\ stage_runs' = <<NewStageRun(orchestra)>>
    /\ UNCHANGED <<poolVars, loop, version_files, version_log, vm_result,
                   checkpoint_files, checkpoint_log, run_context, ctx_result, ops, logicVars>>

\* `self.run_context.advance_stage(self.stage)` without await: the call
\* builds a coroutine object that is dropped, and the body never runs
DroppedCoroutine(rc) == rc

\* run(): the stage is advanced, then execute() is entered
EnterStage ==
    /\ Depth > 0
    /\ Top.pc = "advance"
    /\ run_context' = DroppedCoroutine(run_context)
    /\ SetTop([Top EXCEPT !.pc = "execute", !.entered_in = run_context'.current_stage])
    /\ UNCHANGED <<poolVars, loop, version_files, version_log, vm_result,
                   checkpoint_files, checkpoint_log, ctx_result, ops, logicVars>>

\* execute() returned its results
ExecuteReturns ==
    /\ Depth > 0
    /\ Top.pc = "execute"
    /\ SetTop([Top EXCEPT !.pc = "checkpoint", !.executed = "returned",
                          !.results = Results(FALSE)])
    /\ UNCHANGED <<poolVars, loop, version_files, version_log, vm_result,
                   checkpoint_files, checkpoint_log, run_context, ctx_result, ops, logicVars>>

\* execute() raised
ExecuteRaises(exc) ==
    /\ Depth > 0
    /\ Top.pc = "execute"
    /\ SetTop([Top EXCEPT !.pc = "handler", !.executed = exc, !.exc = exc])
    /\ UNCHANGED <<poolVars, loop, version_files, version_log, vm_result,
                   checkpoint_files, checkpoint_log, run_context, ctx_result, ops, logicVars>>

\* TailoringOrchestra.execute, stage 1: `await input_prep.run()`
NestedRun ==
    /\ Depth > 0
    /\ Depth < MaxDepth
    /\ Top.pc = "execute"
    /\ Top.orchestra = "tailoring"
    /\ stage_runs' = Append(stage_runs, NewStageRun("input_preparation"))
    /\ UNCHANGED <<poolVars, loop, version_files, version_log, vm_result,
                   checkpoint_files, checkpoint_log, run_context, ctx_result, ops, logicVars>>

\* the nested run() ended: what it raised leaves the enclosing execute()
\* through `except Exception: raise`; what it returned lets it go on
NestedEnded ==
    /\ Depth > 1
    /\ ~InProgress
    /\ LET outer == stage_runs[Depth - 1] IN
       stage_runs' =
           [SubSeq(stage_runs, 1, Depth - 1) EXCEPT ![Depth - 1] =
               IF Top.pc = "raised"
               THEN [outer EXCEPT !.pc = "handler", !.executed = Top.exc, !.exc = Top.exc]
               ELSE outer]
    /\ UNCHANGED <<poolVars, loop, version_files, version_log, vm_result,
                   checkpoint_files, checkpoint_log, run_context, ctx_result, ops, logicVars>>

\* the parameters of RunContext.save_checkpoint after self, and the
\* keywords run() and _checkpoint() pass to it
ContextSaveParameters == {}
ContextSaveKeywords == {"checkpoint_data"}

\* run() after execute() returned: timing keys, save_checkpoint(checkpoint_data=...),
\* add_context_data(context_key, results) without await, return results
Complete ==
    /\ Depth > 0
    /\ Top.pc = "checkpoint"
    /\ IF CallBinds(ContextSaveKeywords, ContextSaveParameters)
       THEN LET saved == ContextCheckpoint(checkpoint_files, checkpoint_log, run_context) IN
            /\ checkpoint_files' = saved.files
            /\ checkpoint_log' = saved.log
            /\ run_context' = DroppedCoroutine(run_context)
            /\ SetTop(IF saved.exc = ""
                      THEN [Top EXCEPT !.pc = "returned", !.results = Results(TRUE)]
                      ELSE [Top EXCEPT !.pc = "handler", !.results = Results(TRUE),
                                       !.exc = saved.exc])
       ELSE /\ SetTop([Top EXCEPT !.pc = "handler", !.results = Results(TRUE),
                                  !.exc = "TypeError"])
            /\ UNCHANGED <<checkpoint_files, checkpoint_log, run_context>>
    /\ UNCHANGED <<poolVars, loop, version_files, version_log, vm_result,
                   ctx_result, ops, logicVars>>

\* the parameters of RunContext.mark_failed after self, and the keywords
\* run() passes to it
MarkFailedParameters == {"reason"}
MarkFailedKeywords == {"error_message", "context"}

\* run()'s `except Exception`: mark_failed(error_message=..., context=...)
\* without await, then `raise`.  A call that does not bind raises TypeError
\* inside the handler, and that is what leaves run()
HandleFailure ==
    /\ Depth > 0
    /\ Top.pc = "handler"
    /\ run_context' = DroppedCoroutine(run_context)
    /\ SetTop([Top EXCEPT !.pc = "raised",
                          !.exc = IF CallBinds(MarkFailedKeywords, MarkFailedParameters)
                                  THEN Top.exc ELSE "TypeError"])
    /\ UNCHANGED <<poolVars, loop, version_files, version_log, vm_result,
                   checkpoint_files, checkpoint_log, ctx_result, ops, logicVars>>

\* the caller fills the context before it runs an orchestra
Populate(key, value) ==
    /\ Depth = 0
    /\ AddContextData(key, value)

InitStage ==
    /\ PoolIdle
    /\ loop = LoopIdle
    /\ StoresIdle

NextStage ==
    \/ \E key \in ContextKeys, value \in ContextValues : Populate(key, value)
    \/ \E orchestra \in Orchestras : StartRun(orchestra)
    \/ EnterStage
    \/ ExecuteReturns
    \/ \E exc \in ExecuteFaults : ExecuteRaises(exc)
    \/ NestedRun
    \/ NestedEnded
    \/ Complete
    \/ HandleFailure
    \/ Tick

SpecStage == InitStage /\ [][NextStage]_vars

(***************************************************************************)
(* Pure functions: merger/validators.calculate_confidence_score,           *)
(* decisions/decision_logic.select_top_jds, ChangesRanker.execute          *)
(*                                                                         *)
(* Scores and weights are written in hundredths (90 stands for 0.90); a    *)
(* quotient is kept as numerator and denominator and compared by cross     *)
(* multiplication, so no rounding enters.                                  *)
(***************************************************************************)
\* the validators in the order _run_validators puts them in its dict
ValidatorNames ==
    <<"r1_principles", "r2_examples", "section_completeness", "actionability">>

EqualWeights ==
    [r1_principles |-> 25, r2_examples |-> 25, section_completeness |-> 25,
     actionability |-> 25]

\* the weights calculate_confidence_score uses when none are passed
DefaultWeights ==
    [r1_principles |-> 30, r2_examples |-> 25, section_completeness |-> 25,
     actionability |-> 20]

\* ValidationResult.score values the validators return here
ValidatorScores == {60, 70, 80, 90}

\* spec 8, scenario C: scores 0.9, 0.6, 0.8, 0.7 and threshold 0.85
ScenarioC ==
    [scores |-> [r1_principles |-> 90, r2_examples |-> 60, section_completeness |-> 80,
                 actionability |-> 70],
     threshold |-> 85]

\* weights.get(name, 1.0 / len(validation_results))
WeightOf(weights, name, count) ==
    IF name \in DOMAIN weights THEN weights[name] ELSE 100 \div count

\* the for loop over validation_results.items(): total_score and total_weight
\* after the first k validators
RECURSIVE Totals(_, _, _)
Totals(validation_results, weights, k) ==
    IF k = 0 THEN [total_score |-> 0, total_weight |-> 0]
    ELSE LET before == Totals(validation_results, weights, k - 1)
             name == ValidatorNames[k]
             weight == WeightOf(weights, name, Len(ValidatorNames))
         IN  [total_score |-> before.total_score + validation_results[name] * weight,
              total_weight |-> before.total_weight + weight]

\* a quotient num/den, in hundredths
Quotient(num, den) == [num |-> num, den |-> den]
QuotientAtLeast(q, hundredths) == q.num >= hundredths * q.den
\* q equals the given number of thousandths
QuotientIs(q, thousandths) == q.num * 10 = thousandths * q.den

\* calculate_confidence_score(validation_results) with weights = None
calculate_confidence_score(validation_results) ==
    IF DOMAIN validation_results = {} THEN Quotient(0, 1)
    ELSE LET totals == Totals(validation_results, DefaultWeights, Len(ValidatorNames))
         IN  IF totals.total_weight > 0
             THEN Quotient(totals.total_score, totals.total_weight)
             ELSE Quotient(0, 1)

\* one application of a function: its name, its input and what it returned
Applied(fn, input, output) == [fn |-> fn, input |-> input, output |-> output]

\* the dicts _run_validators can return
ValidationResults ==
    [{ValidatorNames[k] : k \in 1..Len(ValidatorNames)} -> ValidatorScores]

ConfidenceScore(validation_results) ==
    /\ calc' = Applied("calculate_confidence_score", validation_results,
                       calculate_confidence_score(validation_results))
    /\ UNCHANGED <<poolVars, loop, version_files, version_log, vm_result,
                   checkpoint_files, checkpoint_log, run_context, ctx_result, ops,
                   stageVars, merger, fact_loop, main_run, pruning, store_tasks>>

\* MatchResult.match_score values (spec 8: scores 0.91, 0.75, 0.65)
MatchScores == {65, 75, 91}

\* the lists of MatchResult the selector is given; a jd_id is the place of
\* its match in the list
MatchLists ==
    UNION {{[i \in 1..k |-> [jd_id |-> i, match_score |-> scores[i]]] :
               scores \in [1..k -> MatchScores]} : k \in 0..MaxMatches}

RECURSIVE InsertMatchFirst(_, _)
InsertMatchFirst(sorted, m) ==
    IF sorted = <<>> THEN <<m>>
    ELSE IF Head(sorted).match_score > m.match_score
         THEN <<Head(sorted)>> \o InsertMatchFirst(Tail(sorted), m)
         ELSE <<m>> \o sorted

\* m put into a list sorted by match_score descending, behind the matches
\* that have its score: sorted(..., reverse=True) keeps equal keys in order
RECURSIVE InsertMatch(_, _)
InsertMatch(sorted, m) ==
    IF sorted = <<>> THEN <<m>>
    ELSE IF Head(sorted).match_score >= m.match_score
         THEN <<Head(sorted)>> \o InsertMatch(Tail(sorted), m)
         ELSE <<m>> \o sorted

\* sorted(matches[:k], key=lambda m: m.match_score, reverse=True)
RECURSIVE SortedMatches(_, _)
SortedMatches(matches, k) ==
    IF k = 0 THEN <<>>
    ELSE InsertMatch(SortedMatches(matches, k - 1), matches[k])

\* select_top_jds(matches, top_n): the jd_id of sorted_matches[:top_n]
select_top_jds(matches, top_n) ==
    LET sorted_matches == SortedMatches(matches, Len(matches))
    IN  [i \in 1..Min(top_n, Len(sorted_matches)) |-> sorted_matches[i].jd_id]

SelectTopJds(matches, top_n) ==
    /\ calc' = Applied("select_top_jds", [matches |-> matches, top_n |-> top_n],
                       select_top_jds(matches, top_n))
    /\ UNCHANGED <<poolVars, loop, version_files, version_log, vm_result,
                   checkpoint_files, checkpoint_log, run_context, ctx_result, ops,
                   stageVars, merger, fact_loop, main_run, pruning, store_tasks>>

InitDecisions ==
    /\ PoolIdle
    /\ loop = LoopIdle
    /\ StoresIdle

NextDecisions ==
    \/ \E validation_results \in ValidationResults : ConfidenceScore(validation_results)
    \/ \E matches \in MatchLists, top_n \in 0..(MaxMatches + 1) : SelectTopJds(matches, top_n)

SpecDecisions == InitDecisions /\ [][NextDecisions]_vars

(***************************************************************************)
(* ChangesRanker.execute: drop the changes that save no length, rank the   *)
(* rest by effectiveness                                                   *)
(*                                                                         *)
(* quality_delta and impact_score are in hundredths, length_reduction in   *)
(* characters.  effectiveness = quality_delta / length_reduction is kept   *)
(* as a quotient and compared by cross-multiplication.                     *)
(***************************************************************************)
MaxChanges == 3

QualityDeltas == {-10, 10, 20}
LengthReductions == {-1, 0, 1, 2}

\* `impact_score = change.get("impact_score", 0.5)`
DefaultImpactScore == 50

\* an element of changes_with_delta that is not a dict
NotADict == [is_dict |-> FALSE]

ChangeDicts ==
    [is_dict : {TRUE}, quality_delta : QualityDeltas, length_reduction : LengthReductions]

ChangeLists ==
    UNION {[1..n -> ChangeDicts \cup {NotADict}] : n \in 0..MaxChanges}

\* (impact_score < 0.3 and quality_delta >= 0) or quality_delta > 0.1
evaluate_change_impact(change_type, impact_score, quality_delta) ==
    (impact_score < 30 /\ quality_delta >= 0) \/ quality_delta > 10

SkipsChangeBelowZero(length_reduction) == length_reduction < 0

\* `if length_reduction <= 0: continue`
SkipsChange(length_reduction) == length_reduction <= 0

\* the scored copy of changes[position]: its fields, the score, the advice
ScoredChange(changes, position) ==
    [change |-> changes[position], position |-> position,
     effectiveness_score |-> Quotient(changes[position].quality_delta,
                                      changes[position].length_reduction),
     recommended |-> evaluate_change_impact("removal", DefaultImpactScore,
                                            changes[position].quality_delta)]

\* the loop over changes[1..k]
RECURSIVE ScoredChanges(_, _)
ScoredChanges(changes, k) ==
    IF k = 0 THEN <<>>
    ELSE LET scored == ScoredChanges(changes, k - 1)
         IN  IF ~changes[k].is_dict THEN scored
             ELSE IF SkipsChange(changes[k].length_reduction) THEN scored
             ELSE Append(scored, ScoredChange(changes, k))

\* a / b > c / d for divisors above zero
ScoreAbove(p, q) == p.num * q.den > q.num * p.den

\* sorted(..., reverse=True) is stable: a change goes behind every change
\* already placed whose score is not below its own
InsertChange(ranked, scored_change) ==
    LET behind == {i \in 1..Len(ranked) :
                      ~ScoreAbove(scored_change.effectiveness_score,
                                  ranked[i].effectiveness_score)}
        at == IF behind = {} THEN 0 ELSE SetMax(behind)
    IN  SubSeq(ranked, 1, at) \o <<scored_change>> \o SubSeq(ranked, at + 1, Len(ranked))

RECURSIVE RankedBy(_, _)
RankedBy(scored_changes, k) ==
    IF k = 0 THEN <<>>
    ELSE InsertChange(RankedBy(scored_changes, k - 1), scored_changes[k])

\* min(recommended_deltas) - 0.01, or 0.0 when nothing is recommended
SelectionThreshold(ranked_changes) ==
    LET recommended_deltas ==
            {ranked_changes[i].change.quality_delta :
                i \in {j \in 1..Len(ranked_changes) : ranked_changes[j].recommended}}
    IN  IF recommended_deltas # {} THEN SetMin(recommended_deltas) - 1 ELSE 0

ChangesRankerExecute(changes) ==
    IF Len(changes) = 0 THEN [ranked_changes |-> <<>>, selection_threshold |-> 0]
    ELSE LET scored_changes == ScoredChanges(changes, Len(changes))
             ranked_changes == RankedBy(scored_changes, Len(scored_changes))
         IN  [ranked_changes |-> ranked_changes,
              selection_threshold |-> SelectionThreshold(ranked_changes)]

\* one run of the agent on input_data["changes_with_delta"]
RankChanges(changes) ==
    /\ calc = NoCalc
    /\ calc' = Applied("ChangesRanker.execute", changes, ChangesRankerExecute(changes))
    /\ UNCHANGED <<poolVars, loop, version_files, version_log, vm_result,
                   checkpoint_files, checkpoint_log, run_context, ctx_result, ops,
                   stageVars, merger, fact_loop, main_run, pruning, store_tasks>>

NextRanker == \E changes \in ChangeLists : RankChanges(changes)

SpecRanker == InitDecisions /\ [][NextRanker]_vars

(***************************************************************************)
(* MergerEngine.merge: initial merge, then validate and refine             *)
(*                                                                         *)
(* The API calls (_execute_initial_merge, _execute_refinement) return new  *)
(* guidelines or raise.  The validators are functions of the guidelines,   *)
(* so the scores of a text are fixed when the text is produced.            *)
(***************************************************************************)
\* self.max_iterations and self.quality_threshold (hundredths)
MergeIterations == 0..MaxIter
MergeThresholds == {76, 85}

\* what the validators find in the guidelines an API call returned
GuidelineScores ==
    {ScenarioC.scores,
     [r1_principles |-> 60, r2_examples |-> 70, section_completeness |-> 60,
      actionability |-> 70],
     [r1_principles |-> 90, r2_examples |-> 90, section_completeness |-> 90,
      actionability |-> 90]}

HitMaxLate(iteration, max_iterations) == iteration > max_iterations

\* `if iteration >= self.max_iterations: break`
HitMax(iteration, max_iterations) == iteration >= max_iterations

\* no metadata header built yet
NoHeader == [exc |-> "", confidence_score |-> Quotient(0, 1), validation |-> <<>>]

\* merge(...) called on an engine built with these settings
StartMerge(max_iterations, quality_threshold, inputs_valid) ==
    /\ merger.pc = "idle"
    /\ merger' =
          [pc |-> IF inputs_valid THEN "initial_merge" ELSE "raised",
           exc |-> IF inputs_valid THEN "" ELSE "ValueError",
           max_iterations |-> max_iterations, quality_threshold |-> quality_threshold,
           iteration |-> 0, scores |-> <<>>, confidences |-> <<>>,
           refined_after |-> {}, refine_calls |-> 0, validator_runs |-> 0,
           iterations_performed |-> 0, confidence_score |-> Quotient(0, 1),
           header |-> NoHeader, merged_guidelines |-> <<>>]
    /\ UNCHANGED <<poolVars, loop, version_files, version_log, vm_result,
                   checkpoint_files, checkpoint_log, run_context, ctx_result, ops,
                   stageVars, calc, fact_loop, main_run, pruning, store_tasks>>

\* stage 1: _execute_initial_merge
InitialMerge ==
    /\ merger.pc = "initial_merge"
    /\ \/ \E scores \in GuidelineScores :
              merger' = [merger EXCEPT !.pc = "loop", !.scores = scores]
       \/ merger' = [merger EXCEPT !.pc = "raised", !.exc = "APIError"]
    /\ UNCHANGED <<poolVars, loop, version_files, version_log, vm_result,
                   checkpoint_files, checkpoint_log, run_context, ctx_result, ops,
                   stageVars, calc, fact_loop, main_run, pruning, store_tasks>>

\* one pass of `while iteration < self.max_iterations` up to the refinement
ValidateGuidelines ==
    /\ merger.pc = "loop"
    /\ merger.iteration < merger.max_iterations
    /\ LET iteration == merger.iteration + 1
           confidence == calculate_confidence_score(merger.scores)
       IN  merger' =
             [merger EXCEPT
                !.iteration = iteration,
                !.validator_runs = merger.validator_runs + 1,
                !.confidences = Append(merger.confidences, confidence),
                !.pc = IF QuotientAtLeast(confidence, merger.quality_threshold) THEN "final"
                       ELSE IF HitMax(iteration, merger.max_iterations) THEN "final"
                       ELSE "refine"]
    /\ UNCHANGED <<poolVars, loop, version_files, version_log, vm_result,
                   checkpoint_files, checkpoint_log, run_context, ctx_result, ops,
                   stageVars, calc, fact_loop, main_run, pruning, store_tasks>>

\* the while condition is false: the loop is left without a pass
LoopExhausted ==
    /\ merger.pc = "loop"
    /\ ~(merger.iteration < merger.max_iterations)
    /\ merger' = [merger EXCEPT !.pc = "final"]
    /\ UNCHANGED <<poolVars, loop, version_files, version_log, vm_result,
                   checkpoint_files, checkpoint_log, run_context, ctx_result, ops,
                   stageVars, calc, fact_loop, main_run, pruning, store_tasks>>

\* _execute_refinement
Refine ==
    /\ merger.pc = "refine"
    /\ \/ \E scores \in GuidelineScores :
              merger' = [merger EXCEPT !.pc = "loop", !.scores = scores,
                                       !.refine_calls = merger.refine_calls + 1,
                                       !.refined_after = merger.refined_after
                                                             \cup {merger.iteration}]
       \/ merger' = [merger EXCEPT !.pc = "raised", !.exc = "APIError",
                                   !.refine_calls = merger.refine_calls + 1,
                                   !.refined_after = merger.refined_after
                                                         \cup {merger.iteration}]
    /\ UNCHANGED <<poolVars, loop, version_files, version_log, vm_result,
                   checkpoint_files, checkpoint_log, run_context, ctx_result, ops,
                   stageVars, calc, fact_loop, main_run, pruning, store_tasks>>

\* _run_validators returns a dict of ValidationResult objects (a dataclass);
\* validation_summary holds one plain dict per validator
AsValidationResults(scores) ==
    [name \in DOMAIN scores |-> [kind |-> "ValidationResult", score |-> scores[name]]]
AsSummaryDicts(scores) ==
    [name \in DOMAIN scores |-> [kind |-> "dict", score |-> scores[name]]]

\* build_metadata_header(..., confidence_score, validation_summary): each
\* score is read as validation_summary.get(name, {}).get('score', 0), and
\* only a dict has .get
build_metadata_header(confidence_score, validation_summary) ==
    LET ScoreOf(name) == IF name \in DOMAIN validation_summary
                         THEN validation_summary[name].score ELSE 0
        HasGet(name) == name \in DOMAIN validation_summary
                            => validation_summary[name].kind = "dict"
        names == {ValidatorNames[k] : k \in 1..Len(ValidatorNames)}
    IN  IF \A name \in names : HasGet(name)
        THEN [exc |-> "", confidence_score |-> confidence_score,
              validation |-> [name \in names |-> ScoreOf(name)]]
        ELSE [NoHeader EXCEPT !.exc = "AttributeError"]

\* what merge() passes as validation_summary: final_validation
HeaderArgument(final_validation, validation_summary) == final_validation

\* final validation, the metadata header and the MergeResult
FinishMerge ==
    /\ merger.pc = "final"
    /\ LET final_validation == AsValidationResults(merger.scores)
           final_confidence == calculate_confidence_score(merger.scores)
           validation_summary == AsSummaryDicts(merger.scores)
           metadata_header ==
               build_metadata_header(final_confidence,
                                     HeaderArgument(final_validation, validation_summary))
       IN  IF metadata_header.exc # ""
           THEN merger' = [merger EXCEPT
                              !.pc = "raised", !.exc = metadata_header.exc,
                              !.validator_runs = merger.validator_runs + 1]
           ELSE merger' = [merger EXCEPT
                              !.pc = "returned",
                              !.validator_runs = merger.validator_runs + 1,
                              !.header = metadata_header,
                              !.merged_guidelines = merger.scores,
                              !.confidence_score = final_confidence,
                              !.iterations_performed = merger.iteration]
    /\ UNCHANGED <<poolVars, loop, version_files, version_log, vm_result,
                   checkpoint_files, checkpoint_log, run_context, ctx_result, ops,
                   stageVars, calc, fact_loop, main_run, pruning, store_tasks>>

InitMerge ==
    /\ PoolIdle
    /\ loop = LoopIdle
    /\ StoresIdle

NextMerge ==
    \/ \E max_iterations \in MergeIterations, quality_threshold \in MergeThresholds,
          inputs_valid \in BOOLEAN :
            StartMerge(max_iterations, quality_threshold, inputs_valid)
    \/ InitialMerge
    \/ ValidateGuidelines
    \/ LoopExhausted
    \/ Refine
    \/ FinishMerge

SpecMerge == InitMerge /\ [][NextMerge]_vars

(***************************************************************************)
(* FactCheckingLoopOrchestra.execute: check the draft, revise it, repeat   *)
(*                                                                         *)
(* FactChecker and RevisedDraftWriter are agents: a run returns a task     *)
(* instruction or a result, or raises.  `calls` is the history of the      *)
(* agent runs, in order.                                                   *)
(***************************************************************************)
\* run_context.config.max_iterations: an int, no validator restricts it
FactIterations == 0..MaxIter

\* what a FactChecker run returns
FactReports == {"instruction", "none", "false_facts"}

FactLoopContinuesInclusive(iteration, max_iterations) == iteration <= max_iterations

\* `while iteration < max_iterations`
FactLoopContinues(iteration, max_iterations) == iteration < max_iterations

\* `max_iterations_reached = iteration >= max_iterations`
MaxIterationsReached(iteration, max_iterations) == iteration >= max_iterations

FactCall(agent, stage_name, reported) ==
    [agent |-> agent, stage_name |-> stage_name, reported |-> reported]

FactLoopRaise(called, exc) == fact_loop' = [called EXCEPT !.pc = "raised", !.exc = exc]

\* execute() up to the loop: the context reads and the loop state
StartFactLoop(max_iterations, draft_present, master_resume_present) ==
    /\ fact_loop.pc = "idle"
    /\ fact_loop' =
          [pc |-> IF draft_present /\ master_resume_present THEN "head" ELSE "raised",
           exc |-> IF draft_present /\ master_resume_present THEN "" ELSE "KeyError",
           max_iterations |-> max_iterations, iteration |-> 0,
           current_draft |-> 0, final_has_false_facts |-> FALSE,
           max_iterations_reached |-> FALSE, status |-> "", calls |-> <<>>]
    /\ UNCHANGED <<poolVars, loop, version_files, version_log, vm_result,
                   checkpoint_files, checkpoint_log, run_context, ctx_result, ops,
                   stageVars, calc, merger, main_run, pruning, store_tasks>>

\* the loop header is entered: `iteration += 1`, up to fact_checker.run
BeginFactIteration ==
    /\ fact_loop.pc = "head"
    /\ FactLoopContinues(fact_loop.iteration, fact_loop.max_iterations)
    /\ fact_loop' = [fact_loop EXCEPT !.pc = "check",
                                      !.iteration = fact_loop.iteration + 1]
    /\ UNCHANGED <<poolVars, loop, version_files, version_log, vm_result,
                   checkpoint_files, checkpoint_log, run_context, ctx_result, ops,
                   stageVars, calc, merger, main_run, pruning, store_tasks>>

\* the loop header is left because the condition is false
FactLoopExhausted ==
    /\ fact_loop.pc = "head"
    /\ ~FactLoopContinues(fact_loop.iteration, fact_loop.max_iterations)
    /\ fact_loop' = [fact_loop EXCEPT !.pc = "after"]
    /\ UNCHANGED <<poolVars, loop, version_files, version_log, vm_result,
                   checkpoint_files, checkpoint_log, run_context, ctx_result, ops,
                   stageVars, calc, merger, main_run, pruning, store_tasks>>

\* steps 1-3: fact_checker.run, the checkpoint, the decision
FactCheck ==
    /\ fact_loop.pc = "check"
    /\ \/ \* fact_checker.run raises
          FactLoopRaise([fact_loop EXCEPT !.calls =
                            Append(fact_loop.calls,
                                   FactCall("FactChecker", "fact_checking_iter", "raised"))],
                        "RuntimeError")
       \/ \E reported \in FactReports :
            LET called == [fact_loop EXCEPT !.calls =
                              Append(fact_loop.calls,
                                     FactCall("FactChecker", "fact_checking_iter", reported))]
            IN  IF reported = "instruction"
                THEN \* `break` before the checkpoint
                     fact_loop' = [called EXCEPT !.pc = "after",
                                                 !.final_has_false_facts = FALSE]
                ELSE \/ \* self._checkpoint raises
                        FactLoopRaise(called, "TypeError")
                     \/ \* self._checkpoint returns
                        IF reported = "none"
                        THEN fact_loop' = [called EXCEPT !.pc = "after",
                                                         !.final_has_false_facts = FALSE]
                        ELSE fact_loop' = [called EXCEPT !.pc = "revise"]
    /\ UNCHANGED <<poolVars, loop, version_files, version_log, vm_result,
                   checkpoint_files, checkpoint_log, run_context, ctx_result, ops,
                   stageVars, calc, merger, main_run, pruning, store_tasks>>

\* steps 5-6: revised_writer.run, the new draft, the checkpoint
Revise ==
    /\ fact_loop.pc = "revise"
    /\ \/ \* revised_writer.run raises
          FactLoopRaise([fact_loop EXCEPT !.calls =
                            Append(fact_loop.calls,
                                   FactCall("RevisedDraftWriter", "draft_revision_iter",
                                            "raised"))],
                        "RuntimeError")
       \/ \* a task instruction: the draft is kept, `break`
          fact_loop' = [fact_loop EXCEPT
                           !.pc = "after", !.final_has_false_facts = TRUE,
                           !.calls = Append(fact_loop.calls,
                                            FactCall("RevisedDraftWriter",
                                                     "draft_revision_iter", "instruction"))]
       \/ \* a revised draft
          LET called == [fact_loop EXCEPT
                            !.current_draft = fact_loop.current_draft + 1,
                            !.calls = Append(fact_loop.calls,
                                             FactCall("RevisedDraftWriter",
                                                      "draft_revision_iter", "draft"))]
          IN  \/ FactLoopRaise(called, "TypeError")
              \/ fact_loop' = [called EXCEPT !.pc = "head"]
    /\ UNCHANGED <<poolVars, loop, version_files, version_log, vm_result,
                   checkpoint_files, checkpoint_log, run_context, ctx_result, ops,
                   stageVars, calc, merger, main_run, pruning, store_tasks>>

\* the end of execute(): status and the results dict
FactLoopResults(ended) ==
    [ended EXCEPT
        !.pc = "returned",
        !.status = IF ended.final_has_false_facts
                   THEN IF ended.max_iterations_reached THEN "max_iterations_exceeded"
                        ELSE "has_false_facts"
                   ELSE "success"]

\* after the loop, the limit was reached: final_checker.run, then the results
FinalFactCheck ==
    /\ fact_loop.pc = "after"
    /\ MaxIterationsReached(fact_loop.iteration, fact_loop.max_iterations)
    /\ \/ FactLoopRaise([fact_loop EXCEPT
                            !.max_iterations_reached = TRUE,
                            !.calls = Append(fact_loop.calls,
                                             FactCall("FactChecker", "final_fact_check",
                                                      "raised"))],
                        "RuntimeError")
       \/ \E reported \in FactReports :
            fact_loop' = FactLoopResults(
                [fact_loop EXCEPT
                    !.max_iterations_reached = TRUE,
                    !.final_has_false_facts =
                        IF reported = "instruction" THEN fact_loop.final_has_false_facts
                        ELSE reported = "false_facts",
                    !.calls = Append(fact_loop.calls,
                                     FactCall("FactChecker", "final_fact_check", reported))])
    /\ UNCHANGED <<poolVars, loop, version_files, version_log, vm_result,
                   checkpoint_files, checkpoint_log, run_context, ctx_result, ops,
                   stageVars, calc, merger, main_run, pruning, store_tasks>>

\* after the loop, the limit was not reached: the results
FinishFactLoop ==
    /\ fact_loop.pc = "after"
    /\ ~MaxIterationsReached(fact_loop.iteration, fact_loop.max_iterations)
    /\ fact_loop' = FactLoopResults(fact_loop)
    /\ UNCHANGED <<poolVars, loop, version_files, version_log, vm_result,
                   checkpoint_files, checkpoint_log, run_context, ctx_result, ops,
                   stageVars, calc, merger, main_run, pruning, store_tasks>>

InitFactLoop ==
    /\ PoolIdle
    /\ loop = LoopIdle
    /\ StoresIdle

NextFactLoop ==
    \/ \E max_iterations \in FactIterations,
          draft_present \in BOOLEAN, master_resume_present \in BOOLEAN :
            StartFactLoop(max_iterations, draft_present, master_resume_present)
    \/ BeginFactIteration
    \/ FactLoopExhausted
    \/ FactCheck
    \/ Revise
    \/ FinalFactCheck
    \/ FinishFactLoop

SpecFactLoop == InitFactLoop /\ [][NextFactLoop]_vars

(***************************************************************************)
(* PruningOrchestra.execute: render, ask, and the pruning loop             *)
(*                                                                         *)
(* The template filler, the compiler, the analysis agents and the delta    *)
(* calculator return or raise; ChangesRanker is the function above.  The   *)
(* steps of an iteration after _rank_changes (apply, re-render, feedback)  *)
(* follow its return.                                                      *)
(***************************************************************************)
PruningIterations == 0..MaxIter

\* what DeltaCalculator.run returns: the task instruction, or
\* {"changes_with_delta": [...]}
DeltaResults ==
    {[instruction |-> TRUE, changes_with_delta |-> <<>>]}
        \cup {[instruction |-> FALSE, changes_with_delta |-> changes] :
                 changes \in {c \in ChangeLists : Len(c) <= 2}}

\* no ranking made yet
NoRanking == [ranked_changes |-> <<>>, selection_threshold |-> -1]

\* ChangesRanker.validate_input: the key changes_with_delta is required
RankerInputValid(delta_results) == ~delta_results.instruction

\* `ranked_changes[0]` on what changes_ranker.run returned: the dict of
\* format_output has the keys "ranked_changes" and "selection_threshold",
\* and a dict is subscripted by key, so 0 is looked up as a key
SubscriptZero(ranked_changes) ==
    IF \A key \in DOMAIN ranked_changes : key \in STRING THEN "KeyError" ELSE ""

PruningRaise(state, exc, at) ==
    pruning' = [state EXCEPT !.pc = "raised", !.exc = exc, !.at = at]

\* execute() up to the initial compilation: context reads and loop state
StartPruning(max_iterations, draft_present, jd_present) ==
    /\ pruning.pc = "idle"
    /\ pruning' =
          [pc |-> IF draft_present /\ jd_present THEN "compile" ELSE "raised",
           exc |-> IF draft_present /\ jd_present THEN "" ELSE "KeyError",
           at |-> IF draft_present /\ jd_present THEN "" ELSE "context",
           max_iterations |-> max_iterations, iteration |-> 0, acceptable |-> FALSE,
           current_draft |-> 0, changes_applied |-> <<>>, feedback_log |-> <<>>,
           analyses |-> 0, delta_results |-> [instruction |-> TRUE, changes_with_delta |-> <<>>],
           ranking |-> NoRanking, rankings |-> 0,
           released |-> <<>>, status |-> ""]
    /\ UNCHANGED <<poolVars, loop, version_files, version_log, vm_result,
                   checkpoint_files, checkpoint_log, run_context, ctx_result, ops,
                   stageVars, calc, merger, fact_loop, main_run, store_tasks>>

\* step 1: _compile_draft_to_pdf(iteration=0)
InitialCompile ==
    /\ pruning.pc = "compile"
    /\ \/ pruning' = [pruning EXCEPT !.pc = "feedback"]
       \/ \* the filler returned the task instruction: write_text(dict)
          PruningRaise(pruning, "TypeError", "compile")
       \/ \* an agent raised or the compilation did not succeed
          PruningRaise(pruning, "RuntimeError", "compile")
    /\ UNCHANGED <<poolVars, loop, version_files, version_log, vm_result,
                   checkpoint_files, checkpoint_log, run_context, ctx_result, ops,
                   stageVars, calc, merger, fact_loop, main_run, store_tasks>>

\* the results dict and the release of the current draft
PruningResults(state, status) ==
    [state EXCEPT !.pc = "returned", !.status = status,
                  !.released = <<state.current_draft>>]

\* step 2: the initial feedback, the checkpoint, and the decision
InitialFeedback ==
    /\ pruning.pc = "feedback"
    /\ \/ PruningRaise(pruning, "FileNotFoundError", "feedback")
       \/ \E acceptable \in BOOLEAN :
            LET asked == [pruning EXCEPT
                             !.acceptable = acceptable,
                             !.feedback_log = Append(pruning.feedback_log, acceptable)]
            IN  \/ PruningRaise(asked, "TypeError", "checkpoint")
                \/ IF acceptable
                   THEN \/ pruning' = PruningResults(asked, "success")
                        \/ PruningRaise(asked, "OSError", "promote")
                   ELSE pruning' = [asked EXCEPT !.pc = "loop"]
    /\ UNCHANGED <<poolVars, loop, version_files, version_log, vm_result,
                   checkpoint_files, checkpoint_log, run_context, ctx_result, ops,
                   stageVars, calc, merger, fact_loop, main_run, store_tasks>>

\* `while not acceptable and iteration < max_iterations`
PruningContinues(acceptable, iteration, max_iterations) ==
    ~acceptable /\ iteration < max_iterations

\* the loop header is entered: `iteration += 1`, up to the analysis
BeginPruningIteration ==
    /\ pruning.pc = "loop"
    /\ PruningContinues(pruning.acceptable, pruning.iteration, pruning.max_iterations)
    /\ pruning' = [pruning EXCEPT !.pc = "analysis", !.iteration = pruning.iteration + 1]
    /\ UNCHANGED <<poolVars, loop, version_files, version_log, vm_result,
                   checkpoint_files, checkpoint_log, run_context, ctx_result, ops,
                   stageVars, calc, merger, fact_loop, main_run, store_tasks>>

\* step 3a: _run_parallel_analysis
Analyse ==
    /\ pruning.pc = "analysis"
    /\ \/ pruning' = [pruning EXCEPT !.pc = "delta", !.analyses = pruning.analyses + 1]
       \/ PruningRaise([pruning EXCEPT !.analyses = pruning.analyses + 1],
                       "RuntimeError", "analysis")
    /\ UNCHANGED <<poolVars, loop, version_files, version_log, vm_result,
                   checkpoint_files, checkpoint_log, run_context, ctx_result, ops,
                   stageVars, calc, merger, fact_loop, main_run, store_tasks>>

\* step 3b: _calculate_delta_scores
CalculateDeltas ==
    /\ pruning.pc = "delta"
    /\ \/ \E delta_results \in DeltaResults :
            pruning' = [pruning EXCEPT !.pc = "rank", !.delta_results = delta_results]
       \/ PruningRaise(pruning, "RuntimeError", "delta")
    /\ UNCHANGED <<poolVars, loop, version_files, version_log, vm_result,
                   checkpoint_files, checkpoint_log, run_context, ctx_result, ops,
                   stageVars, calc, merger, fact_loop, main_run, store_tasks>>

\* step 3c: _rank_changes: changes_ranker.run(delta_results), then the
\* debug message that subscripts the result
RankPruningChanges ==
    /\ pruning.pc = "rank"
    /\ IF ~RankerInputValid(pruning.delta_results)
       THEN PruningRaise(pruning, "ValueError", "rank")
       ELSE LET ranked_changes ==
                    ChangesRankerExecute(pruning.delta_results.changes_with_delta)
                ranked == [pruning EXCEPT !.ranking = ranked_changes,
                                          !.rankings = pruning.rankings + 1]
            IN  IF SubscriptZero(ranked_changes) # ""
                THEN PruningRaise(ranked, SubscriptZero(ranked_changes), "rank")
                ELSE pruning' = [ranked EXCEPT !.pc = "apply"]
    /\ UNCHANGED <<poolVars, loop, version_files, version_log, vm_result,
                   checkpoint_files, checkpoint_log, run_context, ctx_result, ops,
                   stageVars, calc, merger, fact_loop, main_run, store_tasks>>

\* the loop is left by its condition: step 4 and the status
FinalizePruning ==
    /\ pruning.pc = "loop"
    /\ ~PruningContinues(pruning.acceptable, pruning.iteration, pruning.max_iterations)
    /\ \/ pruning' = PruningResults(pruning, IF pruning.acceptable THEN "success"
                                             ELSE "max_iterations_exceeded")
       \/ PruningRaise(pruning, "OSError", "promote")
    /\ UNCHANGED <<poolVars, loop, version_files, version_log, vm_result,
                   checkpoint_files, checkpoint_log, run_context, ctx_result, ops,
                   stageVars, calc, merger, fact_loop, main_run, store_tasks>>

NextPruning ==
    \/ \E max_iterations \in PruningIterations,
          draft_present \in BOOLEAN, jd_present \in BOOLEAN :
            StartPruning(max_iterations, draft_present, jd_present)
    \/ InitialCompile
    \/ InitialFeedback
    \/ BeginPruningIteration
    \/ Analyse
    \/ CalculateDeltas
    \/ RankPruningChanges
    \/ FinalizePruning

SpecPruning == InitDecisions /\ [][NextPruning]_vars

(***************************************************************************)
(* The version requests of the writing/polishing loop, as VersionManager   *)
(* receives them                                                           *)
(***************************************************************************)
\* the dict the loop passes to version_manager.run to store a draft
StoreRequest(draft, version_number) ==
    [action |-> "store", draft |-> draft, version_number |-> version_number,
     document_type |-> "resume"]

\* the dict the loop passes to version_manager.run in the regression branch
RestoreRequest(version_number) ==
    [action |-> "restore", version_number |-> version_number,
     document_type |-> "resume"]

\* VersionManager.validate_input: action, a non-empty document_id, content
\* for a store, a version_num >= 1 for a restore; a key that is absent
\* reads as "" or None and fails its test
VersionInputValid(input_data) ==
    /\ "action" \in DOMAIN input_data
    /\ input_data.action \in {"store", "restore"}
    /\ "document_id" \in DOMAIN input_data
    /\ input_data.action = "store" => "content" \in DOMAIN input_data
    /\ input_data.action = "restore" =>
          /\ "version_num" \in DOMAIN input_data
          /\ input_data.version_num >= 1

\* the versions in the store after the loop's store requests for the
\* numbers 0 .. version_counter - 1: a request that validate_input rejects
\* stores nothing (BaseAgent.run raises ValueError before execute)
StoredByLoop(version_counter) ==
    {version_number \in 0..(version_counter - 1) :
        VersionInputValid(StoreRequest(version_number, version_number))}

(***************************************************************************)
(* Properties of the pool and of the unit pipeline                         *)
(***************************************************************************)
Done(u) == units[u].pc = "done"
Result(u) == units[u].ret[2]
Invokes(u, step) == \E k \in 1..Len(units[u].trace) : units[u].trace[k] = step
Times(u, step) == Cardinality({k \in 1..Len(units[u].trace) : units[u].trace[k] = step})
Position(u, step) == CHOOSE k \in 1..Len(units[u].trace) : units[u].trace[k] = step
OwnsArtifact(u) == \E a \in artifacts : a.owner = u

\* C1: a returned execute_agents call has one entry per unit and entry i is
\* the outcome of the unit created for index i, whatever the pool size and
\* the order in which the units finished.
C1_OrderPreserved ==
    \A c \in Calls : call[c].st = "returned" =>
        /\ Len(call[c].results) = call[c].n
        /\ \A i \in 0..(call[c].n - 1) :
            /\ units[UnitAt(c, i)].call = c
            /\ units[UnitAt(c, i)].index = i
            /\ call[c].results[i + 1] = Result(UnitAt(c, i))
            /\ call[c].results[i + 1].val = UnitAt(c, i)

\* a call returned although its second unit saved its artifact a second
\* before its first unit did
C1_Witness ==
    \E c \in Calls :
        /\ call[c].st = "returned"
        /\ call[c].n >= 2
        /\ \E a, b \in artifacts :
            /\ a.owner = UnitAt(c, 0)
            /\ b.owner = UnitAt(c, 1)
            /\ b.path[3] < a.path[3]

\* C2: a unit whose run raises is reported as an error value at its own
\* index; execute_agents itself raises only for the argument error, and
\* every sibling runs to completion and is reported with its own output.
C2_FailureIsolation ==
    \A c \in Calls :
        /\ call[c].st = "raised" => ~call[c].same_length
        /\ call[c].st = "returned" =>
            \A i \in 0..(call[c].n - 1) :
                LET u == UnitAt(c, i) IN
                /\ Done(u)
                /\ Invokes(u, "log_agent_complete")
                    => call[c].results[i + 1] = Output(u)
                /\ ~Invokes(u, "log_agent_complete")
                    => /\ call[c].results[i + 1].kind = "error"
                       /\ call[c].results[i + 1].val = u

\* a returned call in which one unit failed and a sibling succeeded
C2_Witness ==
    \E c \in Calls :
        /\ call[c].st = "returned"
        /\ \E i, j \in 1..call[c].n :
            /\ call[c].results[i].kind = "error"
            /\ call[c].results[j].kind = "output"

\* the scenario's call has returned and exactly the unit at the failing index raised
ScenarioARan(c) ==
    /\ pool_size = ScenarioA.limit
    /\ call[c].st = "returned"
    /\ call[c].n = ScenarioA.units
    /\ \A i \in 0..(call[c].n - 1) :
        Invokes(UnitAt(c, i), "log_agent_complete") <=> i # ScenarioA.failing

\* C3: with a pool size N at most N units are inside agent.run() at once,
\* over all calls in flight on the pool; and when five units run with limit
\* two and the third raises, five results come back and only index 2 is an
\* error.
C3_AdmissionBound ==
    /\ pool_size # NONE => Cardinality(InFlight) <= pool_size
    /\ \A c \in Calls : ScenarioARan(c) =>
        /\ Len(call[c].results) = ScenarioA.units
        /\ \A i \in 0..(call[c].n - 1) :
            call[c].results[i + 1].kind = "error" <=> i = ScenarioA.failing

\* scenario A has run to its end
C3_Witness == \E c \in Calls : ScenarioARan(c)

\* C4: execute_agents with lists of different lengths raises the argument
\* error before any work starts: no task is created, no permit is taken and
\* no result list is produced.
C4_FailFast ==
    [][\A c \in Calls :
        (call[c].st = "idle" /\ call'[c].st # "idle" /\ ~call'[c].same_length) =>
            /\ call'[c].st = "raised"
            /\ call'[c].exc = "ValueError"
            /\ call'[c].results = <<>>
            /\ call'[c].n = 0
            /\ units' = units
            /\ nextUnit' = nextUnit
            /\ sem_value' = sem_value]_vars

\* a call was rejected for its arguments while another call's units hold permits
C4_Witness ==
    \E c, d \in Calls :
        /\ call[c].st = "raised"
        /\ ~call[c].same_length
        /\ UnitsOf(c) = {}
        /\ call[d].st = "running"
        /\ InFlight # {}

\* C5: when validate_input answers false, run raises the invalid-input error
\* and nothing else of the pipeline is invoked: no execute, no format_output,
\* no artifact write, no completion log.
C5_InvalidInputStops ==
    \A u \in UnitIds : units[u].valid = "false" =>
        /\ Done(u)
        /\ Result(u) = Error(u, "ValueError", "invalid_input")
        /\ units[u].trace = <<"validate_input">>
        /\ ~OwnsArtifact(u)

\* a unit was rejected by validation while a sibling went on to save
C5_Witness ==
    \E u, v \in UnitIds :
        /\ units[u].valid = "false"
        /\ Done(u)
        /\ OwnsArtifact(v)

\* C6: a run that returns has invoked save_artifact exactly once, after
\* format_output and before returning; a run that fails validation has
\* invoked it not at all.
C6_OneArtifactWrite ==
    \A u \in UnitIds :
        /\ (Done(u) /\ Result(u).kind = "output") =>
            /\ Times(u, "save_artifact") = 1
            /\ Invokes(u, "format_output")
            /\ Position(u, "format_output") < Position(u, "save_artifact")
            /\ units[u].trace[Len(units[u].trace)] = "log_agent_complete"
        /\ units[u].valid = "false" => Times(u, "save_artifact") = 0

\* one unit returned its output and another failed validation
C6_Witness ==
    \E u, v \in UnitIds :
        /\ Done(u)
        /\ Result(u).kind = "output"
        /\ units[v].valid = "false"

\* C7: every successful run ends with an artifact record of its own; no
\* run's artifact is overwritten by another run's.
C7_NoCollision ==
    \A u \in UnitIds : (Done(u) /\ Result(u).kind = "output") => OwnsArtifact(u)

\* C8: when execute or format_output raises, run returns no value: the
\* result is a RuntimeError naming the unit and wrapping the fault, and no
\* artifact is persisted for that call.
C8_FaultsWrapped ==
    \A u \in UnitIds :
        (Done(u) /\ Result(u).cause \in {"execute", "format_output"}) =>
            /\ Result(u) = Error(u, "RuntimeError", Result(u).cause)
            /\ ~Invokes(u, "save_artifact")
            /\ ~Invokes(u, "log_agent_complete")
            /\ ~OwnsArtifact(u)

\* one unit failed in execute and another in format_output
C8_Witness ==
    \E u, v \in UnitIds :
        /\ Done(u) /\ Result(u).cause = "execute"
        /\ Done(v) /\ Result(v).cause = "format_output"

(***************************************************************************)
(* Properties of the writing/polishing loop                                *)
(***************************************************************************)
LoopEnded == loop.pc \in {"returned", "raised"}

\* C9: for every max_iterations >= 0 and every sequence of evaluator
\* results the loop terminates; no iteration numbered above max_iterations
\* starts, the evaluator is invoked at most max_iterations times, and fix
\* plus improve are invoked at most max_iterations times in total.
C9_BoundedLoop ==
    /\ [](/\ loop.iteration <= loop.max_iterations
          /\ loop.eval_calls <= loop.max_iterations
          /\ loop.fix_calls + loop.polish_calls <= loop.max_iterations)
    /\ <>LoopEnded

\* a run that used every iteration it was allowed, each with a rewrite
C9_Witness ==
    /\ loop.pc = "returned"
    /\ loop.max_iterations >= 2
    /\ loop.eval_calls = loop.max_iterations
    /\ loop.fix_calls + loop.polish_calls = loop.max_iterations
    /\ loop.fix_calls > 0
    /\ loop.polish_calls > 0

MetThreshold(i) == loop.evals[i].score >= loop.quality_threshold

\* iteration i is the last one and the polisher ran in no iteration from i on
EndsAt(i) ==
    /\ loop.iteration = i
    /\ loop.pc \in {"restore", "finish", "returned", "raised"}
    /\ \A j \in loop.polish_iters : j < i

CollaboratorFaults == {"SetupError", "RuntimeError", "CheckpointError"}

Regressed == \E k \in 1..Len(loop.evaluation_path) : loop.evaluation_path[k] = "restore"

\* iteration i has the highest score among the iterations before the last
BestPrior(i) ==
    /\ i \in 1..(Len(loop.evals) - 1)
    /\ \A k \in 1..(Len(loop.evals) - 1) : loop.evals[k].score <= loop.evals[i].score

ExitBranch == loop.evaluation_path[Len(loop.evaluation_path)]

Exhausted ==
    /\ Len(loop.evaluation_path) = loop.max_iterations
    /\ loop.evaluation_path # <<>> => ExitBranch \in {"polish", "issue_fix"}

LogOf(document_id) ==
    LET IsFor(entry) == entry.document_id = document_id
    IN  SelectSeq(version_log, IsFor)

\* C14: the stores of a document that starts with no versions return 1, 2,
\* ..., N in that order, without gaps or repeats, whatever is stored for
\* other documents in between.
C14_VersionNumbering ==
    \A document_id \in DocumentIds :
        \A k \in 1..Len(LogOf(document_id)) : LogOf(document_id)[k].version_num = k

\* a document received versions 1 and 2 with a store for another document
\* between them
C14_Witness ==
    /\ Len(version_log) = 3
    /\ version_log[1].document_id = version_log[3].document_id
    /\ version_log[2].document_id # version_log[1].document_id
    /\ version_log[3].version_num = 2

LatestSecond ==
    SetMax({checkpoint_log[k].name[2] : k \in 1..Len(checkpoint_log)})

\* C17: load_latest_checkpoint returns None when no checkpoint has been
\* saved, and otherwise the (stage, payload) of a checkpoint whose creation
\* timestamp is the greatest of all saved checkpoints, whatever their stage
\* names are.
C17_LatestIsMostRecent ==
    ctx_result.op = "load_latest_checkpoint" =>
        IF checkpoint_log = <<>>
        THEN ctx_result.value = <<"None">>
        ELSE /\ ctx_result.value # <<"None">>
             /\ ctx_result.value[1] = ctx_result.value[2].stage
             /\ ctx_result.value[2].checkpoint_timestamp = LatestSecond

\* C18: checkpoints are append-only: after k successful save_checkpoint
\* calls there are k distinct checkpoint records, and the record of every
\* earlier save is still there with the stage and the payload it was saved
\* with.
C18_CheckpointsAppendOnly ==
    /\ Cardinality(checkpoint_files) = Len(checkpoint_log)
    /\ \A k \in 1..Len(checkpoint_log) :
          \E f \in checkpoint_files :
              /\ f.seq = k
              /\ f.name = checkpoint_log[k].name
              /\ f.data.stage = checkpoint_log[k].stage
              /\ f.data.state_data = checkpoint_log[k].state_data

\* the operations of RunContext that mutate it and then checkpoint
MutatingOps == {"advance_stage", "add_context_data", "log_error"}

\* C20: when advance_stage, add_context_data or log_error has ended, it has
\* returned, the last checkpoint written holds the full RunContext with the
\* new value, and advance_stage has returned the handle of that checkpoint.
C20_MutationCheckpointed ==
    ctx_result.op \in MutatingOps =>
        /\ ctx_result.exc = ""
        /\ \E f \in checkpoint_files :
              /\ f.seq = Len(checkpoint_log)
              /\ f.data.stage = run_context.current_stage
              /\ f.data.state_data = to_dict(run_context)
              /\ ctx_result.op = "advance_stage" => ctx_result.value = f.name

\* C21: mark_completed sets end_time, moves current_stage to COMPLETED and
\* leaves error_log and context_data as they were; mark_failed(reason) sets
\* end_time, appends exactly one error_log entry carrying the reason and the
\* stage that was current at the call, and moves current_stage to FAILED; no
\* operation modifies or removes an existing error_log entry.
C21_TerminalMarks ==
    [][/\ MarkCompleted =>
            /\ run_context'.ended
            /\ run_context'.current_stage = "completed"
            /\ run_context'.error_log = run_context.error_log
            /\ run_context'.context_data = run_context.context_data
       /\ \A reason \in Reasons : MarkFailed(reason) =>
            /\ run_context'.ended
            /\ run_context'.error_log =
                   Append(run_context.error_log,
                          ErrorRecord(run_context, "execution_failure", reason))
            /\ run_context'.current_stage = "failed"
       /\ Len(run_context'.error_log) >= Len(run_context.error_log)
       /\ SubSeq(run_context'.error_log, 1, Len(run_context.error_log))
              = run_context.error_log]_vars

(***************************************************************************)
(* Properties of the stage boundary                                        *)
(***************************************************************************)
\* C22: when a stage's execute() has returned, run() had set current_stage
\* to that stage before execute started; and when run() has returned,
\* context_data holds under '<name>_output' the results with the
\* execution-time metadata and a checkpoint has been written.
C22_StagePublished ==
    \A k \in 1..Depth :
        LET run == stage_runs[k] IN
        /\ run.executed = "returned" => run.entered_in = run.stage
        /\ run.pc = "returned" =>
              /\ <<ContextKey(run.orchestra), Results(TRUE)>> \in run_context.context_data
              /\ checkpoint_log # <<>>

\* C23: when a stage's execute() has raised and its run() has ended, run()
\* has raised the exception execute() raised, exactly one error_log entry
\* has been appended since the outermost run() started, current_stage is
\* FAILED and end_time is set.
C23_FailureHandledOnce ==
    \A k \in 1..Depth :
        LET run == stage_runs[k] IN
        (run.pc = "raised" /\ run.executed \in ExecuteFaults) =>
            /\ run.exc = run.executed
            /\ Len(run_context.error_log) = stage_runs[1].errors_before + 1
            /\ run_context.current_stage = "failed"
            /\ run_context.ended

(***************************************************************************)
(* Properties of the decision functions and of the merger                  *)
(***************************************************************************)
\* 10000 times 0.30*r1 + 0.25*r2 + 0.25*section + 0.20*actionability
WeightedSum(scores) ==
    30 * scores.r1_principles + 25 * scores.r2_examples
        + 25 * scores.section_completeness + 20 * scores.actionability

IsConfidence == calc.fn = "calculate_confidence_score"

\* C25 as stated: the confidence is the weighted sum with weights 0.30,
\* 0.25, 0.25, 0.20, and for the scores 0.9, 0.6, 0.8, 0.7 it is 0.755,
\* below the threshold 0.85.
C25_ConfidenceIs0755 ==
    IsConfidence =>
        /\ calc.output.num * 100 = WeightedSum(calc.input) * calc.output.den
        /\ calc.input = ScenarioC.scores =>
              /\ QuotientIs(calc.output, 755)
              /\ ~QuotientAtLeast(calc.output, ScenarioC.threshold)

\* C25: the confidence is the weighted sum with weights 0.30, 0.25, 0.25,
\* 0.20, and for the scores 0.9, 0.6, 0.8, 0.7 it is 0.76, below the
\* threshold 0.85.
C25_WeightedConfidence ==
    IsConfidence =>
        /\ calc.output.num * 100 = WeightedSum(calc.input) * calc.output.den
        /\ calc.input = ScenarioC.scores =>
              /\ QuotientIs(calc.output, 760)
              /\ ~QuotientAtLeast(calc.output, ScenarioC.threshold)

\* the confidence of the scores of scenario C has been computed
C25_Witness ==
    /\ IsConfidence
    /\ calc.input = ScenarioC.scores
    /\ calc.output.den > 0

MergeStarted == merger.pc \notin {"idle"}
\* the while loop of merge() has been left
MergeLoopLeft ==
    \/ merger.pc \in {"final", "returned"}
    \/ merger.pc = "raised" /\ merger.exc = "AttributeError"
MetMergeThreshold(i) == QuotientAtLeast(merger.confidences[i], merger.quality_threshold)

\* C26: the merge loop ends on the first iteration whose confidence is >=
\* quality_threshold, or else when the iteration counter reaches
\* max_iterations; refinement runs only after an iteration whose confidence
\* was below the threshold and never after the iteration numbered
\* max_iterations, so for max_iterations >= 1 there are at most
\* max_iterations - 1 refinement calls (none for max_iterations = 0), and
\* iterations_performed <= max_iterations.
C26_MergeLoopExits ==
    MergeStarted =>
        /\ merger.iteration <= merger.max_iterations
        /\ Len(merger.confidences) = merger.iteration
        /\ \A i \in 1..Len(merger.confidences) :
              MetMergeThreshold(i) =>
                  /\ i = merger.iteration
                  /\ MergeLoopLeft
        /\ \A i \in merger.refined_after :
              /\ ~MetMergeThreshold(i)
              /\ i < merger.max_iterations
        /\ merger.refine_calls = Cardinality(merger.refined_after)
        /\ merger.max_iterations >= 1 => merger.refine_calls <= merger.max_iterations - 1
        /\ merger.max_iterations = 0 => merger.refine_calls = 0
        /\ MergeLoopLeft =>
              \/ merger.iteration = merger.max_iterations
              \/ MetMergeThreshold(merger.iteration)
        /\ merger.pc = "returned" =>
              /\ merger.iterations_performed <= merger.max_iterations
              /\ merger.iterations_performed = merger.iteration

\* a merge that refined after a low first iteration and left the loop on a
\* later iteration that met the threshold, before max_iterations
C26_Witness ==
    /\ MergeLoopLeft
    /\ merger.pc # "final"
    /\ merger.refine_calls >= 1
    /\ merger.iteration < merger.max_iterations
    /\ MetMergeThreshold(merger.iteration)

IsSelection == calc.fn = "select_top_jds"

\* match a of the input comes before match b in the stable descending order
RanksBefore(matches, a, b) ==
    \/ matches[a].match_score > matches[b].match_score
    \/ matches[a].match_score = matches[b].match_score /\ a < b

\* C27: select_top_jds(matches, n) for n >= 0 returns the ids of the first
\* min(n, len(matches)) matches in the stable order by match_score
\* descending: scores do not increase along the result, matches of equal
\* score keep their original order, no match left out ranks before a
\* returned one, and with n greater than the number of matches all of them
\* are returned.
C27_TopSelection ==
    IsSelection =>
        LET matches == calc.input.matches
            selected == calc.output
            ids == {selected[i] : i \in 1..Len(selected)}
        IN  /\ Len(selected) = Min(calc.input.top_n, Len(matches))
            /\ ids \subseteq 1..Len(matches)
            /\ Cardinality(ids) = Len(selected)
            /\ \A i, j \in 1..Len(selected) :
                  i < j => RanksBefore(matches, selected[i], selected[j])
            /\ \A a \in ids, b \in (1..Len(matches)) \ ids : RanksBefore(matches, a, b)
            /\ calc.input.top_n > Len(matches) => ids = 1..Len(matches)

\* two of three matches were asked for and the second place was tied
C27_Witness ==
    /\ IsSelection
    /\ Len(calc.input.matches) = 3
    /\ calc.input.top_n = 2
    /\ calc.input.matches[2].match_score = calc.input.matches[3].match_score
    /\ calc.input.matches[1].match_score < calc.input.matches[2].match_score
    /\ calc.output = <<2, 3>>

(***************************************************************************)
(* Properties of the fact-checking loop                                    *)
(***************************************************************************)
FactLoopStarted == fact_loop.pc \notin {"idle"} /\ fact_loop.exc # "KeyError"
FactCalls == IF FactLoopStarted THEN fact_loop.calls ELSE <<>>
IsCheck(made) == made.agent = "FactChecker"
IsLoopCheck(made) == IsCheck(made) /\ made.stage_name = "fact_checking_iter"
IsFinalCheck(made) == IsCheck(made) /\ made.stage_name = "final_fact_check"
IsRewrite(made) == made.agent = "RevisedDraftWriter"
CallsThat(P(_)) == Cardinality({k \in 1..Len(FactCalls) : P(FactCalls[k])})

\* every rewrite comes directly after a check of the loop that reported
\* false facts
RewriteFollowsFalseFacts ==
    \A k \in 1..Len(FactCalls) :
        IsRewrite(FactCalls[k]) =>
            /\ k > 1
            /\ IsLoopCheck(FactCalls[k - 1])
            /\ FactCalls[k - 1].reported = "false_facts"

Ranked == calc.fn = "ChangesRanker.execute"

\* the positions of the input whose length reduction is above zero
SavesLength(changes) ==
    {i \in 1..Len(changes) : changes[i].is_dict /\ changes[i].length_reduction > 0}

\* C29: the ranked changes are exactly the input changes whose length
\* reduction is positive, each once and with its fields kept, and they are
\* listed in non-increasing order of quality_delta / length_reduction
C29_RankedChanges ==
    Ranked =>
        LET changes == calc.input
            ranked_changes == calc.output.ranked_changes
        IN  /\ Len(ranked_changes) = Cardinality(SavesLength(changes))
            /\ {ranked_changes[k].position : k \in 1..Len(ranked_changes)}
                   = SavesLength(changes)
            /\ \A k \in 1..Len(ranked_changes) :
                  ranked_changes[k].change = changes[ranked_changes[k].position]
            /\ \A k \in 1..(Len(ranked_changes) - 1) :
                  LET first == ranked_changes[k].change
                      next == ranked_changes[k + 1].change
                  IN  first.quality_delta * next.length_reduction
                          >= next.quality_delta * first.length_reduction

\* a change that saves nothing is dropped and the two others change places
C29_Witness ==
    /\ Ranked
    /\ Len(calc.input) = 3
    /\ calc.input[1] = [is_dict |-> TRUE, quality_delta |-> 10, length_reduction |-> 2]
    /\ calc.input[2] = [is_dict |-> TRUE, quality_delta |-> 20, length_reduction |-> 0]
    /\ calc.input[3] = [is_dict |-> TRUE, quality_delta |-> 20, length_reduction |-> 1]
    /\ Len(calc.output.ranked_changes) = 2
    /\ calc.output.ranked_changes[1].position = 3
    /\ calc.output.ranked_changes[2].position = 1

(***************************************************************************)
(* Properties of main and of a failed checkpoint                           *)
(***************************************************************************)
\* the operations of RunContext that end with a checkpoint
CheckpointingOps ==
    {"create", "advance_stage", "add_context_data", "log_error", "mark_completed",
     "mark_failed"}

\* the last checkpoint written holds the RunContext as it is now
OnFile ==
    \E f \in checkpoint_files :
        /\ f.seq = Len(checkpoint_log)
        /\ f.data.state_data = to_dict(run_context)

\* C30: an operation of RunContext whose checkpoint is not written ends by
\* raising to its caller, and a main whose RunContext operation raised ends
\* with the failure status and without reporting completion
C30_CheckpointFailureFatal ==
    /\ ctx_result.op \in CheckpointingOps /\ ~OnFile => ctx_result.exc # ""
    /\ main_run.pc = "setup" => OnFile
    /\ main_run.pc = "except" => main_run.exc # ""
    /\ main_run.pc = "ended" =>
          /\ main_run.exit_code = FailureStatus
          /\ ~main_run.completed

\* create's checkpoint failed and main has ended with status 1, and a later
\* mark_completed on a context has raised as well
C30_Witness ==
    /\ main_run.pc = "ended"
    /\ main_run.cause = "TypeError"
    /\ main_run.exit_code = FailureStatus
    /\ ctx_result.op = "mark_completed"
    /\ ctx_result.exc = "TypeError"
    /\ ~OnFile

(***************************************************************************)
(* Further properties of the writing/polishing loop                        *)
(***************************************************************************)
\* a score in tenths that lies in [0, 1]
InUnitRange(score) == 0 <= score /\ score <= 10

FixBranches ==
    Cardinality({k \in 1..Len(loop.evaluation_path) : loop.evaluation_path[k] = "issue_fix"})

\* C32: an iteration whose evaluation has critical issues takes the
\* issue_fix branch whatever its score: IssueFixer is run, the polisher is
\* not, and the iteration ends the loop neither as converged nor as
\* regressed; the loop goes on to the next iteration, and returns after such
\* an iteration only because max_iterations is used up
C32_CriticalIssuesFirst ==
    loop.pc # "idle" =>
        /\ \A i \in 1..Len(loop.evaluation_path) :
              loop.evals[i].has_critical_issues =>
                  /\ loop.evaluation_path[i] = "issue_fix"
                  /\ i \notin loop.polish_iters
        /\ loop.fix_calls = FixBranches - (IF loop.pc = "fix" THEN 1 ELSE 0)
        /\ \A i \in 1..Len(loop.evaluation_path) :
              (loop.evals[i].has_critical_issues /\ i = Len(loop.evals)) =>
                  /\ loop.pc \in {"fix", "head", "evaluate", "raised", "returned"}
                  /\ loop.pc = "returned" =>
                        /\ loop.iteration = loop.max_iterations
                        /\ loop.status = "max_iterations_reached"

\* a run in which a first evaluation at the threshold and a second one below
\* the first both had critical issues, were fixed, and a third was evaluated
C32_Witness ==
    /\ loop.pc = "returned"
    /\ Len(loop.evals) = 3
    /\ loop.evals[1].has_critical_issues
    /\ loop.evals[1].score >= loop.quality_threshold
    /\ loop.evals[2].has_critical_issues
    /\ loop.evals[2].score < loop.evals[1].score
    /\ loop.evaluation_path[1] = "issue_fix"
    /\ loop.evaluation_path[2] = "issue_fix"
    /\ loop.fix_calls = 2

(***************************************************************************)
(* Properties of the pruning loop                                          *)
(***************************************************************************)
PruningStarted == pruning.pc # "idle" /\ pruning.at # "context"

\* the exceptions of the agents, the oracle, the checkpoint and the file
\* system, as opposed to those raised by the orchestra's own statements
PruningCollaboratorFault ==
    /\ pruning.pc = "raised"
    /\ \/ pruning.at \in {"feedback", "checkpoint", "promote", "analysis", "delta"}
       \/ pruning.at = "compile" /\ pruning.exc = "RuntimeError"

C34_MergeReturnsHeaded ==
    /\ merger.pc = "raised" => merger.exc \in {"ValueError", "APIError"}
    /\ merger.pc = "returned" =>
          /\ merger.merged_guidelines = merger.scores
          /\ merger.header.validation = merger.scores
          /\ merger.header.confidence_score = calculate_confidence_score(merger.scores)
          /\ merger.confidence_score = calculate_confidence_score(merger.scores)

(***************************************************************************)
(* Liveness of the pool                                                    *)
(***************************************************************************)
\* C35: with agent runs that all end, every execute_agents call that is
\* waiting on its tasks eventually returns, for every pool_size and with
\* several calls on one pool; the free permits are pool_size less the units
\* that hold one, so every permit taken is given back when its unit ends,
\* by a result or by an exception, and with no unit running all pool_size
\* permits are free
C35_PoolLiveness ==
    /\ [](pool_size # NONE => sem_value + Cardinality(InFlight) = pool_size)
    /\ [](InFlight = {} => sem_value = pool_size)
    /\ \A c \in Calls : (call[c].st = "running") ~> (call[c].st = "returned")

\* two calls shared a pool of one permit; a unit of the first failed, every
\* unit is done, both calls returned and the permit is free
C35_Witness ==
    /\ pool_size = 1
    /\ sem_value = 1
    /\ \A c \in Calls : call[c].st = "returned" /\ call[c].n >= 1
    /\ \E u \in UnitIds : units[u].pc = "done" /\ units[u].ret[2].kind = "error"
    /\ \E u \in UnitIds : units[u].pc = "done" /\ units[u].ret[2].kind = "output"

DraftGivenTo(k) ==
    Cardinality({j \in 1..(k - 1) :
                    IsRewrite(FactCalls[j]) /\ FactCalls[j].reported = "draft"})

\* the fact checks that ran to a report on the draft that is returned
ChecksOfReturnedDraft ==
    {k \in 1..Len(FactCalls) :
        /\ IsCheck(FactCalls[k])
        /\ FactCalls[k].reported \in {"none", "false_facts"}
        /\ DraftGivenTo(k) = fact_loop.current_draft}

C40_StoresDoNotCollide ==
    /\ \A i, j \in 1..Len(version_log) :
          (i # j /\ version_log[i].document_id = version_log[j].document_id)
              => version_log[i].version_num # version_log[j].version_num
    /\ \A i \in 1..Len(version_log) :
          LET version_data == load_version(version_log[i].document_id,
                                           version_log[i].version_num)
          IN  /\ version_data.exc = ""
              /\ version_data.value.content = version_log[i].content
====
